---- MODULE Spec2Model ----
(***************************************************************************)
(* A model of the rotating log transport (src/src/transports/log.ts):      *)
(* LogTransport.write with its level filter, the rotation check, the       *)
(* synchronous SIZE and DATE rotations, archiving and retention cleanup,   *)
(* over a small file system in which single operations may fail.           *)
(***************************************************************************)
EXTENDS Integers, Sequences, FiniteSets, TLC

VARIABLES
    given,              \* the LogTransportOptions handed to the constructor
    ctor,               \* the path handed to the constructor and what it did
    options,            \* this.options, after the constructor's defaults
    levelFilter,        \* this.levelFilter
    currentDateString,  \* this.currentDateString
    files,              \* the file system: path -> file
    dirs,               \* the directories that exist
    now,                \* the clock, in hours since 2025-01-01T00:00Z
    tz,                 \* the local zone's offset to UTC, in hours
    msgLens,            \* the lengths (in bytes) of the messages the callers log
    nWrites,            \* admitted writes so far
    nRot,               \* rotations so far
    ticks,              \* clock steps so far
    faulted,            \* a file-system operation has failed so far
    last,               \* what the last operation did
    calls,              \* the calls of write under way, by caller
    logger,             \* the Flog logger: its configuration and its last call
    twin,               \* a second LogTransport with its own copy of the files
    perm                \* the last call of PermissionUtils.ensureDirectoryWithFallback

vars == <<given, ctor, options, levelFilter, currentDateString, files, dirs, now, tz,
          msgLens, nWrites, nRot, ticks, faulted, last, calls, logger, twin, perm>>

-----------------------------------------------------------------------------
(* Bounds of the model *)

\* The admitted writes of a behaviour, per specification.
MaxWrites == 3
MaxSizeWrites == 5
MaxRetentionWrites == 4
ScenarioWrites == 5
\* The clock steps of a behaviour.
MaxTicks == 1
MaxRetentionTicks == 2
\* The longest message, and the longest message of the fixed-length scenario.
MaxMsgLen == 1
MaxFixedLen == 30
\* The largest maxFiles.
MaxFilesBound == 3

\* The callers that share one transport, and the writes they make step by step.
MaxCallers == 2
MaxStepWrites == 3

\* The transports of a configuration file, and the members of options.transports.
MaxTransports == 2
MaxListed == 2

\* The writes and the clock steps of the behaviours of the DATE rotation.
MaxDateWrites == 2
MaxDateTicks == 1

\* The writes of each of two transports, and the clock steps between them.
MaxTwinWrites == 2
MaxTwinTicks == 1

\* The writes before and between calls of archiveFile.
MaxArchiveWrites == 2

\* The writes of each of two transports on one path, and the clock steps.
MaxSharedWrites == 2
MaxSharedTicks == 1
\* The writes and the clock steps after a start on files of an earlier run.
MaxFrameWrites == 3
MaxFrameTicks == 1

-----------------------------------------------------------------------------
(* Values *)

Levels == {"ERROR", "WARN", "INFO", "DEBUG", "TRACE"}

SIZE == "size"
DATE == "date"

\* An optional value of a JavaScript object: undefined, or v.
Undefined == [def |-> FALSE, v |-> 0]
UndefinedStr == [def |-> FALSE, v |-> <<>>]
UndefinedBool == [def |-> FALSE, v |-> FALSE]
UndefinedList == [def |-> FALSE, v |-> {}]
Some(x) == [def |-> TRUE, v |-> x]

\* x || d, for a number and for a string
OrNum(x, d) == IF x.def /\ x.v # 0 THEN x.v ELSE d
OrStr(x, d) == IF x.def /\ x.v # <<>> THEN x.v ELSE d

\* An optional dateFormat, and x || d for it.
UndefinedFormat == [def |-> FALSE, v |-> ""]
OrFormat(x, d) == IF x.def /\ x.v # "" THEN x.v ELSE d

Digits == {"0", "1", "2", "3", "4", "5", "6", "7", "8", "9"}

DigitVal(c) ==
    CASE c = "0" -> 0 [] c = "1" -> 1 [] c = "2" -> 2 [] c = "3" -> 3
      [] c = "4" -> 4 [] c = "5" -> 5 [] c = "6" -> 6 [] c = "7" -> 7
      [] c = "8" -> 8 [] c = "9" -> 9

RECURSIVE Pow10(_)
Pow10(k) == IF k = 0 THEN 1 ELSE 10 * Pow10(k - 1)

RECURSIVE DigitRun(_, _)
\* The length of the longest run of digits of s that starts at position i.
DigitRun(s, i) ==
    IF i <= Len(s) /\ s[i] \in Digits THEN 1 + DigitRun(s, i + 1) ELSE 0

\* The number a run of digits denotes.
DigitsValue(s) ==
    LET RECURSIVE val(_)
        val(k) == IF k = 0 THEN 0 ELSE 10 * val(k - 1) + DigitVal(s[k])
    IN val(Len(s))

RECURSIVE SpaceRun(_, _)
SpaceRun(s, i) ==
    IF i <= Len(s) /\ s[i] \in {" ", "\t"} THEN 1 + SpaceRun(s, i + 1) ELSE 0

ToUpper(c) ==
    CASE c = "b" -> "B" [] c = "k" -> "K" [] c = "m" -> "M"
      [] c = "g" -> "G" [] c = "t" -> "T" [] OTHER -> c

-----------------------------------------------------------------------------
(* parseSize *)

Threw == [ok |-> FALSE, v |-> 0]
Returned(x) == [ok |-> TRUE, v |-> x]

Kilo == 1024

multipliers(unit) ==
    CASE unit = <<"B">> -> 1
      [] unit = <<>> -> 1
      [] unit = <<"K", "B">> -> Kilo
      [] unit = <<"M", "B">> -> Kilo * Kilo
      [] unit = <<"G", "B">> -> Kilo * Kilo * Kilo
      [] unit = <<"T", "B">> -> Kilo * Kilo * Kilo * Kilo
      [] unit = <<"K">> -> Kilo
      [] unit = <<"M">> -> Kilo * Kilo
      [] unit = <<"G">> -> Kilo * Kilo * Kilo
      [] unit = <<"T">> -> Kilo * Kilo * Kilo * Kilo

\* The units /([KMGT]?B?)$/i admits, upper-cased.
UnitForms ==
    {<<>>, <<"B">>, <<"K">>, <<"M">>, <<"G">>, <<"T">>,
     <<"K", "B">>, <<"M", "B">>, <<"G", "B">>, <<"T", "B">>}

\* sizeStr.match(/^(\d+(?:\.\d+)?)\s*([KMGT]?B?)$/i), then
\* Math.floor(parseFloat(number) * multiplier); Threw when there is no match.
parseSize(sizeStr) ==
    LET nInt == DigitRun(sizeStr, 1)
        hasFrac == /\ nInt + 1 <= Len(sizeStr)
                   /\ sizeStr[nInt + 1] = "."
                   /\ DigitRun(sizeStr, nInt + 2) >= 1
        nFrac == IF hasFrac THEN DigitRun(sizeStr, nInt + 2) ELSE 0
        numEnd == IF hasFrac THEN nInt + 1 + nFrac ELSE nInt
        unitAt == numEnd + SpaceRun(sizeStr, numEnd + 1) + 1
        unit == [k \in 1..(Len(sizeStr) - unitAt + 1) |->
                    ToUpper(sizeStr[unitAt + k - 1])]
        intPart == DigitsValue(SubSeq(sizeStr, 1, nInt))
        fracPart == IF hasFrac
                    THEN DigitsValue(SubSeq(sizeStr, nInt + 2, numEnd))
                    ELSE 0
    IN IF nInt = 0 \/ unit \notin UnitForms
       THEN Threw
       ELSE Returned(((intPart * Pow10(nFrac) + fracPart) * multipliers(unit))
                        \div Pow10(nFrac))

-----------------------------------------------------------------------------
(* shouldLog *)

NoFilter == [has |-> FALSE, include |-> UndefinedList, exclude |-> UndefinedList]
Filter(inc, exc) == [has |-> TRUE, include |-> inc, exclude |-> exc]

\* shouldLog with the exclude list read as an include list.
shouldLog_excludeAdmits(filter, level) ==
    IF ~filter.has THEN TRUE
    ELSE IF filter.include.def THEN level \in filter.include.v
    ELSE IF filter.exclude.def THEN level \in filter.exclude.v
    ELSE TRUE

shouldLog(filter, level) ==
    IF ~filter.has THEN TRUE
    ELSE IF filter.include.def THEN level \in filter.include.v
    ELSE IF filter.exclude.def THEN level \notin filter.exclude.v
    ELSE TRUE

-----------------------------------------------------------------------------
(* The clock and formatDate *)

HoursPerDay == 24

\* The days of the months of 2025.
MonthDays == <<31, 28, 31, 30, 31, 30, 31, 31, 30, 31, 30, 31>>

RECURSIVE MonthOf(_, _)
\* <<month, day of the month>> of day d (from 0) counted from month m's first day.
MonthOf(d, m) ==
    IF d < MonthDays[m] THEN <<m, d + 1>> ELSE MonthOf(d - MonthDays[m], m + 1)

\* date.toISOString().split('T')[0], as <<year, month, day>>.
IsoDate(t) ==
    LET md == MonthOf(t \div HoursPerDay, 1) IN <<2025, md[1], md[2]>>

\* date.getHours(): the hour of the local time.
GetHours(t, zone) == (t + zone) % HoursPerDay

NoBucket == <<0, 0, 0, -1>>

\* A date string is modelled by its fields <<year, month, day, hour>>; a field the
\* format leaves out is 0 (the day) or -1 (the hour).
formatDate(t, zone, format) ==
    LET d == IsoDate(t) IN
    CASE format = "YYYY-MM-DD" -> <<d[1], d[2], d[3], -1>>
      [] format = "YYYY-MM-DD-HH" -> <<d[1], d[2], d[3], GetHours(t, zone)>>
      [] format = "YYYY-MM" -> <<d[1], d[2], 0, -1>>
      [] OTHER -> <<d[1], d[2], d[3], -1>>

-----------------------------------------------------------------------------
(* The file system *)

\* A path: its directory and the shape of its file name.
Path(dir, kind, bucket, n, gz) ==
    [dir |-> dir, kind |-> kind, bucket |-> bucket, n |-> n, gz |-> gz]

LogDir == "log"

\* this.filePath
filePath == Path(LogDir, "active", NoBucket, 0, FALSE)

\* `${baseName}.${i}${ext}`
IndexName(i) == Path("", "index", NoBucket, i, FALSE)

\* `${baseName}.${dateString}${ext}` (counter 0) and
\* `${baseName}.${dateString}.${counter}${ext}`
DateName(dateString, counter) == Path("", "date", dateString, counter, FALSE)

\* A file of the archive directory that is not of this transport's making.
ForeignName == Path("", "foreign", NoBucket, 0, FALSE)

\* path.join(dir, name)
join(dir, name) == [name EXCEPT !.dir = dir]

\* name + '.gz'
Gz(path) == [path EXCEPT !.gz = TRUE]

File(content, mtime) == [content |-> content, mtime |-> mtime]

existsSync(fs, path) == path \in DOMAIN fs

Remove(fs, path) == [p \in DOMAIN fs \ {path} |-> fs[p]]

Put(fs, path, file) == [p \in DOMAIN fs \cup {path} |-> IF p = path THEN file ELSE fs[p]]

\* A failure of one file-system operation on one path.
Fault(op, path) == [op |-> op, p |-> path]

\* The state a call works on: the files, this.currentDateString, and what the call
\* has done so far: warnings printed, paths overwritten by a rename, paths deleted
\* (and the modification times of the files deleted), operations that failed.
Run(fs, cds) ==
    [files |-> fs, cds |-> cds, warns |-> 0, overw |-> {}, dels |-> {},
     delFiles |-> {}, failed |-> {}]

Warn(r, fault) == [r EXCEPT !.warns = @ + 1, !.failed = @ \cup {fault}]

\* try { renameSync(src, dst) } catch { console.warn(...) }
renameSync(r, src, dst, F) ==
    IF /\ existsSync(r.files, src)
       /\ dst.dir \in dirs
       /\ Fault("rename", src) \notin F
    THEN [r EXCEPT !.files = Put(Remove(@, src), dst, r.files[src]),
                   !.overw = @ \cup (IF existsSync(r.files, dst) /\ dst # src
                                     THEN {dst} ELSE {})]
    ELSE Warn(r, Fault("rename", src))

\* try { unlinkSync(path) } catch { console.warn(...) }
unlinkSync(r, path, F) ==
    IF existsSync(r.files, path) /\ Fault("unlink", path) \notin F
    THEN [r EXCEPT !.files = Remove(@, path), !.dels = @ \cup {path},
                   !.delFiles = @ \cup {[p |-> path, mtime |-> r.files[path].mtime]}]
    ELSE Warn(r, Fault("unlink", path))

\* readdirSync(dir)
readdirSync(fs, dir) == {p \in DOMAIN fs : p.dir = dir}

\* The loop given up at a deletion that fails, the failing path being met first.
unlinkEach_stopsAtFailure(r, paths, F) ==
    LET gone == {p \in paths : unlinkSync(r, p, F).dels # r.dels}
        kept == paths \ gone
    IN IF kept = {}
       THEN [r EXCEPT !.files = [p \in DOMAIN r.files \ gone |-> r.files[p]],
                      !.dels = @ \cup gone,
                      !.delFiles = @ \cup {[p |-> q, mtime |-> r.files[q].mtime] : q \in gone}]
       ELSE [r EXCEPT !.warns = @ + 1,
                      !.failed = @ \cup {Fault("unlink", p) : p \in kept}]

\* paths.forEach(p => { try { unlinkSync(p) } catch { console.warn(...) } }): each
\* call touches its own path only, so the order does not matter.
unlinkEach(r, paths, F) ==
    LET gone == {p \in paths : unlinkSync(r, p, F).dels # r.dels}
        kept == paths \ gone
    IN [r EXCEPT !.files = [p \in DOMAIN r.files \ gone |-> r.files[p]],
                 !.dels = @ \cup gone,
                 !.delFiles = @ \cup {[p |-> q, mtime |-> r.files[q].mtime] : q \in gone},
                 !.warns = @ + Cardinality(kept),
                 !.failed = @ \cup {Fault("unlink", p) : p \in kept}]

-----------------------------------------------------------------------------
(* Archiving and retention *)

\* The comparison with the cutoff itself included.
Expired_atCutoff(file, cutoffDate) == file.mtime <= cutoffDate

\* The file is older than the cutoff: stats.mtime < cutoffDate.
Expired(file, cutoffDate) == file.mtime < cutoffDate

\* The retention period that means "keep forever".
KeepForever(retentionDays) == retentionDays = 0

cleanupArchivedFiles(r, F) ==
    IF KeepForever(options.retentionDays) THEN r
    ELSE
    LET archiveDir == options.archiveDir
        retentionMs == options.retentionDays * HoursPerDay
        cutoffDate == now - retentionMs
        expired == {p \in readdirSync(r.files, archiveDir) :
                        Expired(r.files[p], cutoffDate)}
    IN IF archiveDir \notin dirs THEN r
       ELSE IF Fault("readdir", join(archiveDir, ForeignName)) \in F
       THEN Warn(r, Fault("readdir", join(archiveDir, ForeignName)))
       ELSE unlinkEach(r, expired, F)

\* The synchronous archiving writing archivePath + '.gz' under compress.
archiveFileSync_compressed(r, sourceFile, archiveFileName, F) ==
    LET archiveDir == options.archiveDir
        archivePath == join(archiveDir, archiveFileName)
    IN IF ~existsSync(r.files, sourceFile) THEN r
       ELSE IF options.compress
       THEN renameSync(r, sourceFile, Gz(archivePath), F)
       ELSE renameSync(r, sourceFile, archivePath, F)

archiveFileSync(r, sourceFile, archiveFileName, F) ==
    LET archiveDir == options.archiveDir
        archivePath == join(archiveDir, archiveFileName)
    IN IF ~existsSync(r.files, sourceFile) THEN r
       ELSE IF options.compress
       THEN renameSync(r, sourceFile, archivePath, F)
       ELSE renameSync(r, sourceFile, archivePath, F)

\* await pipeline(createReadStream(sourceFile), createGzip(),
\* createWriteStream(targetFile)): the target cannot be opened (nothing is
\* created), or the streams fail on the way (the target is left with what was
\* written so far, here nothing), or the target holds the whole content.
compressFile(r, sourceFile, targetFile, F) ==
    IF targetFile.dir \notin dirs \/ Fault("open", targetFile) \in F
    THEN [ok |-> FALSE, run |-> r]
    ELSE IF Fault("compress", sourceFile) \in F
    THEN [ok |-> FALSE,
          run |-> [r EXCEPT !.files = Put(@, targetFile, File(<<>>, now))]]
    ELSE [ok |-> TRUE,
          run |-> [r EXCEPT !.files =
                       Put(@, targetFile, File(r.files[sourceFile].content, now))]]

\* archiveFile: a failure of the compression, of the removal of the source or of
\* the plain move is warned, and the catch block moves the source to
\* archivePath, warning again if that fails.
archiveFile(r, sourceFile, archiveFileName, F) ==
    LET archivePath == join(options.archiveDir, archiveFileName)
        c == compressFile(r, sourceFile, Gz(archivePath), F)
        u == unlinkSync(c.run, sourceFile, F)
        m == renameSync(r, sourceFile, archivePath, F)
    IN IF ~existsSync(r.files, sourceFile) THEN r
       ELSE IF options.compress
       THEN IF ~c.ok
            THEN renameSync(Warn(c.run, Fault("compress", sourceFile)),
                            sourceFile, archivePath, F)
            ELSE IF existsSync(u.files, sourceFile)
            THEN renameSync(u, sourceFile, archivePath, F)
            ELSE u
       ELSE IF existsSync(m.files, sourceFile)
            THEN renameSync(m, sourceFile, archivePath, F)
            ELSE m

-----------------------------------------------------------------------------
(* SIZE rotation *)

\* The loop started two indices too high.
LoopStart_tooHigh(maxFiles) == maxFiles + 1

\* The first index of the loop: for (let i = maxFiles - 1; i >= 1; i--)
LoopStart(maxFiles) == maxFiles - 1

\* The archive taking the file of index maxFiles.
IsOldest_atMaxFiles(i, maxFiles) == i = maxFiles

\* The index whose file goes to the archive: i === maxFiles - 1
IsOldest(i, maxFiles) == i = maxFiles - 1

\* The body of the loop renaming the file of index i two indexes up.
ShiftStep_skipsIndex(r, i, F) ==
    LET oldFile == join(LogDir, IndexName(i))
        newFile == join(LogDir, IndexName(i + 2))
    IN IF ~existsSync(r.files, oldFile) THEN r
       ELSE IF IsOldest(i, options.maxFiles)
       THEN archiveFileSync(r, oldFile, IndexName(i), F)
       ELSE renameSync(r, oldFile, newFile, F)

\* The body of the loop for index i.
ShiftStep(r, i, F) ==
    LET oldFile == join(LogDir, IndexName(i))
        newFile == join(LogDir, IndexName(i + 1))
    IN IF ~existsSync(r.files, oldFile) THEN r
       ELSE IF IsOldest(i, options.maxFiles)
       THEN archiveFileSync(r, oldFile, IndexName(i), F)
       ELSE renameSync(r, oldFile, newFile, F)

RECURSIVE ShiftLoop(_, _, _)
ShiftLoop(r, i, F) ==
    IF i >= 1 THEN ShiftLoop(ShiftStep(r, i, F), i - 1, F) ELSE r

rotateBySizeStrategySync(r, F) ==
    LET r1 == ShiftLoop(r, LoopStart(options.maxFiles), F)
        rotatedFile == join(LogDir, IndexName(1))
        r2 == renameSync(r1, filePath, rotatedFile, F)
    IN cleanupArchivedFiles(r2, F)

-----------------------------------------------------------------------------
(* DATE rotation *)

\* The file name matches
\* ^base\.(\d{4}-\d{2}-\d{2}(?:-\d{2})?(?:\.\d+)?)\.?ext$
MatchesDatePattern(p) == p.kind = "date" /\ ~p.gz /\ p.bucket[3] # 0

\* The order of two names with the same modification time after the sort (a
\* stable sort keeps the directory's order, taken to be the order of the names).
NameBefore(p, q) ==
    \/ \E k \in 1..4 : /\ p.bucket[k] < q.bucket[k]
                        /\ \A j \in 1..(k - 1) : p.bucket[j] = q.bucket[j]
    \/ p.bucket = q.bucket /\ p.n < q.n

cleanupOldDateFiles(r, F) ==
    LET dir == LogDir
        listed == {p \in readdirSync(r.files, dir) : MatchesDatePattern(p)}
        \* a.stat.mtime newest first
        Ahead(p) == {q \in listed :
                        \/ r.files[q].mtime > r.files[p].mtime
                        \/ r.files[q].mtime = r.files[p].mtime /\ NameBefore(q, p)}
        filesToDelete == {p \in listed : Cardinality(Ahead(p)) >= options.maxFiles}
    IN IF Fault("readdir", join(dir, ForeignName)) \in F
       THEN Warn(r, Fault("readdir", join(dir, ForeignName)))
       ELSE IF Cardinality(listed) > options.maxFiles
       THEN unlinkEach(r, filesToDelete, F)
       ELSE r

RECURSIVE FreeArchiveName_ignoresGz(_, _, _)
\* The loop looking at the uncompressed names only.
FreeArchiveName_ignoresGz(fs, dateString, counter) ==
    LET name == DateName(dateString, counter)
    IN IF existsSync(fs, join(options.archiveDir, name))
       THEN FreeArchiveName_ignoresGz(fs, dateString, counter + 1)
       ELSE name

RECURSIVE FreeArchiveName(_, _, _)
\* The while loop that looks for a name neither taken nor taken with '.gz'.
FreeArchiveName(fs, dateString, counter) ==
    LET name == DateName(dateString, counter)
        archiveDir == options.archiveDir
    IN IF \/ existsSync(fs, join(archiveDir, name))
          \/ existsSync(fs, Gz(join(archiveDir, name)))
       THEN FreeArchiveName(fs, dateString, counter + 1)
       ELSE name

\* The DATE rotation without the assignment to this.currentDateString.
rotateByDateStrategySync_keepsBucket(r, F) ==
    LET dateString == r.cds
        finalArchiveFileName == FreeArchiveName(r.files, dateString, 0)
        r1 == archiveFileSync(r, filePath, finalArchiveFileName, F)
        r3 == cleanupArchivedFiles(r1, F)
    IN IF options.maxFiles # 0 THEN cleanupOldDateFiles(r3, F) ELSE r3

rotateByDateStrategySync(r, F) ==
    LET dateString == r.cds
        finalArchiveFileName == FreeArchiveName(r.files, dateString, 0)
        r1 == archiveFileSync(r, filePath, finalArchiveFileName, F)
        r2 == [r1 EXCEPT !.cds = formatDate(now, tz, options.dateFormat)]
        r3 == cleanupArchivedFiles(r2, F)
    IN IF options.maxFiles # 0 THEN cleanupOldDateFiles(r3, F) ELSE r3

-----------------------------------------------------------------------------
(* write *)

IsoLength == 24

\* A message of the caller: the id tells the messages apart, len is its length.
Message(id, len) == [id |-> id, len |-> len]

\* `${timestamp} ${message}\n`
LogEntry(timestamp, message) == [ts |-> timestamp, msg |-> message]

\* The length without the newline that ends the entry.
byteLength_noNewline(entry) == IsoLength + 1 + entry.msg.len

\* Buffer.byteLength(entry, 'utf8')
byteLength(entry) == IsoLength + 1 + entry.msg.len + 1

RECURSIVE SumBytes(_)
SumBytes(content) ==
    IF content = <<>> THEN 0
    ELSE byteLength(Head(content)) + SumBytes(Tail(content))

\* statSync(path).size
size(file) == SumBytes(file.content)

\* The check without the size of the entry to come.
Exceeds_ignoresEntry(currentSize, nextEntrySize, maxSizeBytes) ==
    currentSize > maxSizeBytes

\* The check that rotates at the limit itself.
Exceeds_atLimit(currentSize, nextEntrySize, maxSizeBytes) ==
    currentSize + nextEntrySize >= maxSizeBytes

\* currentSize + nextEntrySize > maxSizeBytes
Exceeds(currentSize, nextEntrySize, maxSizeBytes) ==
    currentSize + nextEntrySize > maxSizeBytes

\* The check with the default limit taken for a limit that does not parse.
needsSizeRotation_defaults(r, nextEntry, F) ==
    IF Fault("stat", filePath) \in F THEN Threw
    ELSE LET maxSizeBytes == parseSize(options.maxSize)
         IN Returned(Exceeds(size(r.files[filePath]), byteLength(nextEntry),
                             IF maxSizeBytes.ok THEN maxSizeBytes.v
                             ELSE 10 * Kilo * Kilo))

needsSizeRotation(r, nextEntry, F) ==
    IF Fault("stat", filePath) \in F THEN Threw
    ELSE LET currentSize == size(r.files[filePath])
             nextEntrySize == byteLength(nextEntry)
             maxSizeBytes == parseSize(options.maxSize)
         IN IF ~maxSizeBytes.ok THEN Threw
            ELSE Returned(Exceeds(currentSize, nextEntrySize, maxSizeBytes.v))

needsDateRotation(r) ==
    LET currentDate == formatDate(now, tz, options.dateFormat)
    IN Returned(r.cds # currentDate)

\* needsRotation reading the size limit whatever the method.
needsRotation_parsesMaxSize(r, nextEntry, F) ==
    IF ~existsSync(r.files, filePath) THEN Returned(FALSE)
    ELSE IF ~parseSize(options.maxSize).ok THEN Threw
    ELSE CASE options.method = SIZE -> needsSizeRotation(r, nextEntry, F)
           [] options.method = DATE -> needsDateRotation(r)
           [] OTHER -> Returned(FALSE)

needsRotation(r, nextEntry, F) ==
    IF ~existsSync(r.files, filePath) THEN Returned(FALSE)
    ELSE CASE options.method = SIZE -> needsSizeRotation(r, nextEntry, F)
           [] options.method = DATE -> needsDateRotation(r)
           [] OTHER -> Returned(FALSE)

rotateFileSync(r, F) ==
    IF ~existsSync(r.files, filePath) THEN r
    ELSE CASE options.method = SIZE -> rotateBySizeStrategySync(r, F)
           [] options.method = DATE -> rotateByDateStrategySync(r, F)
           [] OTHER -> r

\* appendFileSync(path, data) and writeFileSync(path, data); both throw when the
\* directory is missing or the operation fails.
CanWrite(path, F) ==
    /\ ctor.requested # <<>>
    /\ path.dir \in dirs
    /\ Fault("append", path) \notin F

\* The append that replaces what the file held.
appendFileSync_truncates(r, path, data) ==
    [r EXCEPT !.files = Put(@, path, File(<<data>>, now))]

appendFileSync(r, path, data) ==
    [r EXCEPT !.files = Put(@, path, File(Append(r.files[path].content, data), now))]

writeFileSync(r, path, data) ==
    [r EXCEPT !.files = Put(@, path, File(<<data>>, now))]

\* What a call of write did: the run, and whether the level was admitted, what the
\* rotation check said, how many rotations ran, whether an exception reached the
\* caller, and what went to console.error and console.log.
Outcome(r, admitted, needed, rotated, exc) ==
    [run |-> r, admitted |-> admitted, needed |-> needed, rotated |-> rotated,
     exc |-> exc, threw |-> FALSE, conErr |-> 0, conLog |-> <<>>]

\* The try block with the append before the rotation.
TryBlock_appendFirst(r, logEntry, F) ==
    LET need == needsRotation(r, logEntry, F)
    IN IF ~need.ok
       THEN Outcome([r EXCEPT !.failed = @ \cup {Fault("parse", filePath)}],
                    TRUE, "threw", 0, TRUE)
       ELSE IF ~CanWrite(filePath, F)
       THEN Outcome([r EXCEPT !.failed = @ \cup {Fault("append", filePath)}],
                    TRUE, IF need.v THEN "yes" ELSE "no", 0, TRUE)
       ELSE LET r1 == IF existsSync(r.files, filePath)
                      THEN appendFileSync(r, filePath, logEntry)
                      ELSE writeFileSync(r, filePath, logEntry)
            IN Outcome(IF need.v THEN rotateFileSync(r1, F) ELSE r1,
                       TRUE, IF need.v THEN "yes" ELSE "no",
                       IF need.v THEN 1 ELSE 0, FALSE)

\* The try block of write.
TryBlock(r, logEntry, F) ==
    LET need == needsRotation(r, logEntry, F)
    IN IF ~need.ok
       THEN Outcome([r EXCEPT !.failed = @ \cup
                        {Fault(IF Fault("stat", filePath) \in F THEN "stat" ELSE "parse",
                               filePath)}],
                    TRUE, "threw", 0, TRUE)
       ELSE LET r1 == IF need.v THEN rotateFileSync(r, F) ELSE r
                rotated == IF need.v THEN 1 ELSE 0
                needed == IF need.v THEN "yes" ELSE "no"
            IN IF ~CanWrite(filePath, F)
               THEN Outcome([r1 EXCEPT !.failed = @ \cup {Fault("append", filePath)}],
                            TRUE, needed, rotated, TRUE)
               ELSE IF existsSync(r1.files, filePath)
               THEN Outcome(appendFileSync(r1, filePath, logEntry),
                            TRUE, needed, rotated, FALSE)
               ELSE Outcome(writeFileSync(r1, filePath, logEntry),
                            TRUE, needed, rotated, FALSE)

\* A catch block that throws the error on to the caller.
CatchBlock_rethrows(o, message) == [o EXCEPT !.threw = TRUE]

\* A catch block that prints the diagnostic and not the message.
CatchBlock_errorOnly(o, message) == [o EXCEPT !.conErr = @ + 1]

\* The catch block of write.
CatchBlock(o, message) ==
    [o EXCEPT !.conErr = @ + 1, !.conLog = Append(@, message)]

\* write without the level check.
write_unfiltered(level, message, F) ==
    LET r == Run(files, currentDateString)
        o == TryBlock(r, LogEntry(now, message), F)
    IN IF o.exc THEN CatchBlock(o, message) ELSE o

write(level, message, F) ==
    LET r == Run(files, currentDateString)
    IN IF ~shouldLog(levelFilter, level)
       THEN Outcome(r, FALSE, "no", 0, FALSE)
       ELSE LET timestamp == now
                logEntry == LogEntry(timestamp, message)
                o == TryBlock(r, logEntry, F)
            IN IF o.exc THEN CatchBlock(o, message) ELSE o

-----------------------------------------------------------------------------
(* The constructor *)

ArchDir == "arch"

DefaultMaxSize == <<"1", "0", "M", "B">>
DefaultMaxFiles == 5
DefaultRetentionDays == 30

Options(method, maxSize, maxFiles, dateFormat, archiveDir, compress, retentionDays) ==
    [method |-> method, maxSize |-> maxSize, maxFiles |-> maxFiles,
     dateFormat |-> dateFormat, archiveDir |-> archiveDir, compress |-> compress,
     retentionDays |-> retentionDays]

\* this.options = { ... }
Defaults(o) ==
    Options(o.method,
            OrStr(o.maxSize, DefaultMaxSize),
            OrNum(o.maxFiles, DefaultMaxFiles),
            OrFormat(o.dateFormat, "YYYY-MM-DD"),
            OrStr(o.archiveDir, ArchDir),
            IF o.compress.def THEN o.compress.v ELSE TRUE,
            OrNum(o.retentionDays, DefaultRetentionDays))

NoMessage == Message(0, 0)

Last(kind, level, message, o, pre, preCds) ==
    [kind |-> kind, level |-> level, message |-> message,
     admitted |-> o.admitted, needed |-> o.needed, rotated |-> o.rotated,
     threw |-> o.threw, conErr |-> o.conErr, conLog |-> o.conLog,
     warns |-> o.run.warns, overw |-> o.run.overw, dels |-> o.run.dels,
     delFiles |-> o.run.delFiles, failed |-> o.run.failed, pre |-> pre, preCds |-> preCds]

NoOutcome == Outcome(Run(<<>>, NoBucket), FALSE, "no", 0, FALSE)

\* The callers of one process that hold the transport.
Callers == 1..MaxCallers

\* A call of write under way: where it stands (idle: no call; checked: the
\* rotation check has run; rotated: the rotation has run and the append has not),
\* its arguments, the operations that fail in it, what needsRotation said, what it
\* did so far, the files it found, whether it found another call under way, and
\* the files and currentDateString a call run in one piece leaves.
Call(stage, level, message, F, needed, r, pre, preCds, saw, whole) ==
    [stage |-> stage, level |-> level, message |-> message, F |-> F,
     needed |-> needed, run |-> r, pre |-> pre, preCds |-> preCds, saw |-> saw,
     whole |-> whole]

IdleCall ==
    Call("idle", "INFO", NoMessage, {}, "no", Run(<<>>, NoBucket), <<>>, NoBucket,
         FALSE, [files |-> <<>>, cds |-> NoBucket])

\* The paths a caller can hand to the constructor, as their segments: a plain
\* path, the empty string, a blank string, a path through '..'.
PlainPath == <<"log", "app.log">>
EmptyPath == <<>>
BlankPath == <<" ">>
TraversalPath == <<"log", "..", "log", "app.log">>

\* PermissionUtils.validateFilePath: not empty after trim(), no '..'.
validateFilePath(path) ==
    IF path = <<>> \/ \A i \in 1..Len(path) : path[i] = " " THEN FALSE
    ELSE IF \E i \in 1..Len(path) : path[i] = ".." THEN FALSE
    ELSE TRUE

\* The first of PermissionUtils.FALLBACK_DIRS.
FallbackDir == "tmp"

\* PermissionUtils.FALLBACK_DIRS: join(tmpdir(), 'app-logs'), join(homedir(),
\* '.logs'), join(process.cwd(), 'logs').
FALLBACK_DIRS == <<FallbackDir, "home", "cwd">>

\* What is at the path of a directory: nothing, and mkdirSync would create it
\* ("creatable") or throw ("uncreatable"); a directory the process can write to
\* ("dir"); something it cannot write to ("readonly"); a regular file it can
\* write to ("file"). throws holds the fallbacks whose function throws.
NodeKinds == {"creatable", "uncreatable", "dir", "readonly", "file"}

\* existsSync(dir)
dirExists(world, dir) == world.kind[dir] \in {"dir", "readonly", "file"}

\* PermissionUtils.hasWritePermission: existsSync(dir) and accessSync(dir, W_OK),
\* neither of which asks whether dir is a directory.
hasWritePermission(world, dir) ==
    dirExists(world, dir) /\ world.kind[dir] \in {"dir", "file"}

\* PermissionUtils.tryCreateDirectory
tryCreateDirectory(world, dir) ==
    LET made == IF dirExists(world, dir) THEN world
                ELSE [world EXCEPT !.kind[dir] = "dir"]
    IN IF ~dirExists(world, dir) /\ world.kind[dir] = "uncreatable"
       THEN [success |-> FALSE, type |-> "DIRECTORY_CREATE_FAILED", world |-> world]
       ELSE IF ~hasWritePermission(made, dir)
       THEN [success |-> FALSE, type |-> "INSUFFICIENT_PERMISSIONS", world |-> made]
       ELSE [success |-> TRUE, type |-> "", world |-> made]

\* A DirectoryResult, with the directories as the call left them.
DirectoryResult(success, finalPath, originalPath, usedFallback, type, world) ==
    [success |-> success, finalPath |-> finalPath, originalPath |-> originalPath,
     usedFallback |-> usedFallback, type |-> type, threw |-> FALSE, world |-> world]

RECURSIVE tryFallbacks(_, _, _)
\* for (const fallbackDirFn of this.FALLBACK_DIRS), from member i on: a function
\* that throws is passed over.
tryFallbacks(world, filePath_, i) ==
    IF i > Len(FALLBACK_DIRS)
    THEN DirectoryResult(FALSE, filePath_, filePath_, FALSE, "FALLBACK_FAILED", world)
    ELSE IF FALLBACK_DIRS[i] \in world.throws THEN tryFallbacks(world, filePath_, i + 1)
    ELSE LET fallbackResult == tryCreateDirectory(world, FALLBACK_DIRS[i])
         IN IF fallbackResult.success
            THEN DirectoryResult(TRUE, <<FALLBACK_DIRS[i], filePath_[Len(filePath_)]>>,
                                 filePath_, TRUE, "", fallbackResult.world)
            ELSE tryFallbacks(fallbackResult.world, filePath_, i + 1)

\* PermissionUtils.ensureDirectoryWithFallback, for a path of two segments.
ensureDirectoryWithFallback(world, filePath_) ==
    LET originalDir == filePath_[1]
        originalResult == tryCreateDirectory(world, originalDir)
    IN IF originalResult.success
       THEN DirectoryResult(TRUE, filePath_, filePath_, FALSE, "", originalResult.world)
       ELSE tryFallbacks(originalResult.world, filePath_, 1)

\* A call of ensureDirectoryWithFallback: the directories it found, its argument
\* and its result.
Checked(world, filePath_, result) ==
    [made |-> TRUE, world |-> world, filePath |-> filePath_, result |-> result]

NoCheck == [made |-> FALSE]

\* What the constructor did with the path it was given, the directories being
\* as its two mkdirSync calls left them: it keeps the path as it is, warns for
\* each directory it could not create, and returns.
constructor(path, dirsLeft) ==
    [requested |-> path,
     threw |-> FALSE,
     activeDir |-> LogDir,
     warned |-> (IF ArchDir \in dirsLeft THEN {} ELSE {"Failed to create archive directory"})
                \cup (IF LogDir \in dirsLeft THEN {} ELSE {"Failed to create log directory"})]

(* ConfigLoader *)

\* String.prototype.toUpperCase, on the level strings the configuration files hold.
toUpperCase(s) ==
    CASE s = "error" -> "ERROR" [] s = "warn" -> "WARN" [] s = "info" -> "INFO"
      [] s = "debug" -> "DEBUG" [] s = "trace" -> "TRACE"
      [] s = "verbose" -> "VERBOSE" [] OTHER -> s

\* An optional list of a JavaScript object: undefined, or the list.
UndefinedSeq == [def |-> FALSE, v |-> <<>>]

\* The two warnings of the loader.
InvalidLevelWarning == "Invalid log level"
FailedToLoadWarning == "Failed to load LogRider config"

\* A transport the loader built, under the name it is configured by.
NamedTransport(name, type) == [name |-> name, type |-> type]

\* One entry of "transports" in a configuration file. A path is its segments,
\* and <<>> when the entry has none; a method is "" when the entry has none.
TransportConfig(name, type, path, method, levels) ==
    [name |-> name, type |-> type, path |-> path, method |-> method, levels |-> levels]

\* A configuration file: whether it is there, whether JSON.parse reads it, and
\* its members ("" for a level that is not given).
FileConfig(exists, parses, level, timestamp, isArray, transports, defaultTransports) ==
    [exists |-> exists, parses |-> parses, level |-> level, timestamp |-> timestamp,
     isArray |-> isArray, transports |-> transports,
     defaultTransports |-> defaultTransports]

NoFile == FileConfig(FALSE, FALSE, "", UndefinedBool, FALSE, UndefinedSeq, UndefinedSeq)

Config(level, timestamp, transports, defaultTransports) ==
    [level |-> level, timestamp |-> timestamp, transports |-> transports,
     defaultTransports |-> defaultTransports]

DEFAULT_CONFIG ==
    Config("INFO", FALSE, <<NamedTransport("console", "console")>>, <<"console">>)

\* What a step of the loader gives: whether it threw, the warnings it printed,
\* and its value.
Loaded(threw, warned, v) == [threw |-> threw, warned |-> warned, v |-> v]

parseLogLevel(level) ==
    IF level = "" THEN Loaded(FALSE, {}, "")
    ELSE IF toUpperCase(level) \in Levels THEN Loaded(FALSE, {}, toUpperCase(level))
    ELSE Loaded(FALSE, {InvalidLevelWarning}, "")

\* The levels of a list, parsed.
ParsedLevels(list) == {parseLogLevel(l).v : l \in list}

parseLevelFilter(levels) ==
    IF ~levels.has THEN Loaded(FALSE, {}, NoFilter)
    ELSE IF levels.include.def /\ "" \in ParsedLevels(levels.include.v)
    THEN Loaded(TRUE, {InvalidLevelWarning}, NoFilter)
    ELSE IF levels.exclude.def /\ "" \in ParsedLevels(levels.exclude.v)
    THEN Loaded(TRUE, {InvalidLevelWarning}, NoFilter)
    ELSE IF levels.include.def /\ levels.exclude.def
    THEN Loaded(TRUE, {}, NoFilter)
    ELSE Loaded(FALSE, {},
                Filter(IF levels.include.def
                       THEN Some(ParsedLevels(levels.include.v)) ELSE UndefinedList,
                       IF levels.exclude.def
                       THEN Some(ParsedLevels(levels.exclude.v)) ELSE UndefinedList))

\* createLogTransport taking every method it does not know for SIZE.
createLogTransport_anyMethod(config) ==
    IF config.path = <<>> THEN TRUE
    ELSE IF config.method = "" THEN TRUE
    ELSE constructor(config.path, {LogDir, ArchDir}).threw

\* Whether createLogTransport throws.
createLogTransport(config) ==
    IF config.path = <<>> THEN TRUE
    ELSE IF config.method = "" THEN TRUE
    ELSE IF config.method \notin {SIZE, DATE} THEN TRUE
    ELSE constructor(config.path, {LogDir, ArchDir}).threw

createTransport(config) ==
    LET f == parseLevelFilter(config.levels)
    IN  IF f.threw THEN Loaded(TRUE, f.warned, config.type)
        ELSE CASE config.type = "console" -> Loaded(FALSE, {}, config.type)
               [] config.type = "file" ->
                    Loaded(config.path = <<>> \/ ~validateFilePath(config.path), {},
                           config.type)
               [] config.type = "json" -> Loaded(config.path = <<>>, {}, config.type)
               [] config.type = "log" -> Loaded(createLogTransport(config), {}, config.type)
               [] OTHER -> Loaded(TRUE, {}, config.type)

RECURSIVE createEach(_, _, _)
\* The forEach of createNamedTransports, from entry i on.
createEach(entries, isArray, i) ==
    IF i > Len(entries) THEN Loaded(FALSE, {}, <<>>)
    ELSE LET name == IF isArray THEN entries[i].type \o "_" \o ToString(i - 1)
                     ELSE entries[i].name
             t == createTransport(entries[i])
             rest == createEach(entries, isArray, i + 1)
         IN  IF t.threw THEN Loaded(TRUE, t.warned, <<>>)
             ELSE IF rest.threw THEN Loaded(TRUE, t.warned \cup rest.warned, <<>>)
             ELSE Loaded(FALSE, t.warned \cup rest.warned,
                         <<NamedTransport(name, entries[i].type)>> \o rest.v)

createNamedTransports(entries, isArray) == createEach(entries, isArray, 1)

\* Object.keys of the transports.
Keys(transports) == [i \in 1..Len(transports) |-> transports[i].name]

mergeWithDefaults(fileConfig) ==
    LET made == IF fileConfig.transports.def
                THEN createNamedTransports(fileConfig.transports.v, fileConfig.isArray)
                ELSE Loaded(FALSE, {}, DEFAULT_CONFIG.transports)
        level == parseLogLevel(fileConfig.level)
    IN  IF made.threw THEN Loaded(TRUE, made.warned, DEFAULT_CONFIG)
        ELSE Loaded(FALSE, made.warned \cup level.warned,
                    Config(IF level.v # "" THEN level.v ELSE DEFAULT_CONFIG.level,
                           IF fileConfig.timestamp.def THEN fileConfig.timestamp.v
                           ELSE DEFAULT_CONFIG.timestamp,
                           made.v,
                           IF fileConfig.defaultTransports.def
                           THEN fileConfig.defaultTransports.v
                           ELSE IF fileConfig.transports.def /\ fileConfig.isArray
                           THEN Keys(made.v)
                           ELSE DEFAULT_CONFIG.defaultTransports))

\* The try block of loadConfig.
TryLoad(file) ==
    IF ~file.parses THEN Loaded(TRUE, {}, DEFAULT_CONFIG)
    ELSE mergeWithDefaults(file)

loadConfig(file) ==
    IF ~file.exists THEN Loaded(FALSE, {}, DEFAULT_CONFIG)
    ELSE LET t == TryLoad(file)
         IN  IF t.threw
             THEN Loaded(FALSE, t.warned \cup {FailedToLoadWarning}, DEFAULT_CONFIG)
             ELSE t

-----------------------------------------------------------------------------
(* Flog *)

\* The array of Flog.shouldLog.
LevelOrder == <<"ERROR", "WARN", "INFO", "DEBUG", "TRACE">>

\* Array.prototype.indexOf, from zero, -1 for a value that is not there.
indexOf(array, x) ==
    IF \E i \in 1..Len(array) : array[i] = x
    THEN (CHOOSE i \in 1..Len(array) :
              array[i] = x /\ \A j \in 1..(i - 1) : array[j] # x) - 1
    ELSE -1

\* Flog.shouldLog with a strict comparison.
FlogShouldLog_strict(messageLevel, configLevel) ==
    indexOf(LevelOrder, messageLevel) < indexOf(LevelOrder, configLevel)

\* Flog.shouldLog
FlogShouldLog(messageLevel, configLevel) ==
    indexOf(LevelOrder, messageLevel) <= indexOf(LevelOrder, configLevel)

\* One member of options.transports: a name, or a Transport instance.
Item(kind, id) == [kind |-> kind, id |-> id]
Named(list) == [i \in 1..Len(list) |-> Item("name", list[i])]

\* Names every plain object answers to without having them as keys.
ObjectPrototypeKeys == {"constructor", "toString", "hasOwnProperty"}

\* transports[name] of a plain object: whether the value is truthy, and whether
\* it has a write method.
Lookup(transports, name) ==
    IF \E i \in 1..Len(transports) : transports[i].name = name
    THEN [found |-> TRUE, writes |-> TRUE]
    ELSE IF name \in ObjectPrototypeKeys THEN [found |-> TRUE, writes |-> FALSE]
    ELSE [found |-> FALSE, writes |-> FALSE]

RECURSIVE resolveEach(_, _, _)
\* The loop of resolveTransports, from member i on: it throws at the first name
\* whose lookup is falsy.
resolveEach(transports, items, i) ==
    IF i > Len(items) THEN [threw |-> FALSE, v |-> <<>>]
    ELSE LET r == IF items[i].kind = "name" THEN Lookup(transports, items[i].id)
                  ELSE [found |-> TRUE, writes |-> TRUE]
             rest == resolveEach(transports, items, i + 1)
         IN  IF ~r.found \/ rest.threw THEN [threw |-> TRUE, v |-> <<>>]
             ELSE [threw |-> FALSE,
                   v |-> <<[item |-> items[i], writes |-> r.writes]>> \o rest.v]

\* Flog.resolveTransports, and ConfigLoader.resolveTransports for the defaults.
resolveTransports(config, defaultTransportNames, transports) ==
    IF ~transports.def THEN resolveEach(config.transports, Named(defaultTransportNames), 1)
    ELSE resolveEach(config.transports, transports.v, 1)

RECURSIVE forEachWrite(_, _)
\* transports.forEach(transport => transport.write(...)), from member i on: the
\* call of a write that is not a function throws and ends the loop.
forEachWrite(resolved, i) ==
    IF i > Len(resolved) THEN [threw |-> FALSE, delivered |-> <<>>]
    ELSE IF ~resolved[i].writes THEN [threw |-> TRUE, delivered |-> <<>>]
    ELSE LET rest == forEachWrite(resolved, i + 1)
         IN  [threw |-> rest.threw, delivered |-> <<resolved[i].item>> \o rest.delivered]

\* The options of one call: level ("" when not given) and transports.
LogOptions(level, transports) == [level |-> level, transports |-> transports]

\* What one call of Flog.log did.
Logged(level, o, passed, threw, delivered) ==
    [made |-> TRUE, level |-> level, options |-> o, passed |-> passed, threw |-> threw,
     delivered |-> delivered]

NoCall ==
    [made |-> FALSE, level |-> "INFO", options |-> LogOptions("", UndefinedSeq),
     passed |-> FALSE, threw |-> FALSE, delivered |-> <<>>]

\* Flog.log
log(config, defaultTransportNames, level, o) ==
    LET effectiveLevel == IF o.level # "" THEN o.level ELSE config.level
        resolved == resolveTransports(config, defaultTransportNames, o.transports)
        sent == forEachWrite(resolved.v, 1)
    IN  IF ~FlogShouldLog(level, effectiveLevel) THEN Logged(level, o, FALSE, FALSE, <<>>)
        ELSE IF resolved.threw THEN Logged(level, o, TRUE, TRUE, <<>>)
        ELSE Logged(level, o, TRUE, sent.threw, sent.delivered)

\* A logger: the file its constructor read, what loadConfig gave and printed,
\* its default transport names, and its last call.
Flog(built, file, loaded, defaultTransportNames, call) ==
    [built |-> built, file |-> file, config |-> loaded.v, warned |-> loaded.warned,
     threw |-> loaded.threw, defaultTransportNames |-> defaultTransportNames,
     call |-> call]

NoLogger == Flog(FALSE, NoFile, Loaded(FALSE, {}, DEFAULT_CONFIG), <<>>, NoCall)

\* A second LogTransport of the same process, constructed with its own options
\* and working on its own copy of the files: its fields, and what its writes did.
Twin(o, cds, fs, n, rot, f, l) ==
    [built |-> TRUE, given |-> o, options |-> Defaults(o), currentDateString |-> cds,
     files |-> fs, nWrites |-> n, nRot |-> rot, faulted |-> f, last |-> l]

NoTwin == [built |-> FALSE]

-----------------------------------------------------------------------------
(* The state after construction *)

\* The state after new LogTransport(path, o, name, filter): the directories
\* the two mkdirSync calls left, the files that were there before, the clock.
ConstructAt(Requests, Givens, Filters, DirSets, FileSets, Starts, Zones, LenSets) ==
    /\ given \in Givens
    /\ dirs \in DirSets
    /\ \E path \in Requests : ctor = constructor(path, dirs)
    /\ options = Defaults(given)
    /\ levelFilter \in Filters
    /\ files \in FileSets
    /\ now \in Starts
    /\ tz \in Zones
    /\ msgLens \in LenSets
    /\ currentDateString =
          IF given.method = DATE
          THEN formatDate(now, tz, Defaults(given).dateFormat)
          ELSE NoBucket
    /\ nWrites = 0
    /\ nRot = 0
    /\ ticks = 0
    /\ faulted = FALSE
    /\ last = Last("init", "INFO", NoMessage, NoOutcome, files, currentDateString)
    /\ calls = [c \in Callers |-> IdleCall]
    /\ logger = NoLogger
    /\ twin = NoTwin
    /\ perm = NoCheck

\* The same with a plain path.
Construct(Givens, Filters, DirSets, FileSets, Starts, Zones, LenSets) ==
    /\ given \in Givens
    /\ dirs \in DirSets
    /\ ctor = constructor(PlainPath, dirs)
    /\ options = Defaults(given)
    /\ levelFilter \in Filters
    /\ files \in FileSets
    /\ now \in Starts
    /\ tz \in Zones
    /\ msgLens \in LenSets
    /\ currentDateString =
          IF given.method = DATE
          THEN formatDate(now, tz, Defaults(given).dateFormat)
          ELSE NoBucket
    /\ nWrites = 0
    /\ nRot = 0
    /\ ticks = 0
    /\ faulted = FALSE
    /\ last = Last("init", "INFO", NoMessage, NoOutcome, files, currentDateString)
    /\ calls = [c \in Callers |-> IdleCall]
    /\ logger = NoLogger
    /\ twin = NoTwin
    /\ perm = NoCheck

-----------------------------------------------------------------------------
(* Actions *)

\* The operations that can fail in the current state, one per call of write.
FaultTokens(ops) ==
    {f \in ({Fault("stat", filePath), Fault("append", filePath),
             Fault("readdir", join(ArchDir, ForeignName)),
             Fault("readdir", join(LogDir, ForeignName))}
            \cup {Fault("rename", p) : p \in readdirSync(files, LogDir)}
            \cup {Fault("unlink", p) : p \in DOMAIN files}) : f.op \in ops}

FaultChoices(ops) == {{}} \cup {{f} : f \in FaultTokens(ops)}

AllFaults == {"stat", "append", "readdir", "rename", "unlink"}

\* A caller calls write(level, message).
Write(level, len, F, bound) ==
    /\ nWrites < bound
    /\ \E message \in {Message(nWrites + 1, len)} :
       \E o \in {write(level, message, F)} :
          /\ files' = o.run.files
          /\ currentDateString' = o.run.cds
          /\ nWrites' = IF o.admitted THEN nWrites + 1 ELSE nWrites
          /\ nRot' = nRot + o.rotated
          /\ faulted' = (faulted \/ o.run.failed # {})
          /\ last' = Last("write", level, message, o, files, currentDateString)
    /\ UNCHANGED <<perm, twin, logger, given, ctor, options, levelFilter, dirs, now, tz, msgLens, ticks,
                   calls>>

\* Time passes.
Tick(d, bound) ==
    /\ ticks < bound
    /\ now' = now + d
    /\ ticks' = ticks + 1
    /\ last' = Last("tick", "INFO", NoMessage, NoOutcome, files, currentDateString)
    /\ UNCHANGED <<perm, twin, logger, given, ctor, options, levelFilter, currentDateString, files, dirs, tz,
                   msgLens, nWrites, nRot, faulted, calls>>

\* A logger asks the transport whether it takes the level.
Ask(level) ==
    /\ last' = Last("ask", level, NoMessage,
                    Outcome(Run(files, currentDateString),
                            shouldLog(levelFilter, level), "no", 0, FALSE),
                    files, currentDateString)
    /\ UNCHANGED <<perm, twin, logger, given, ctor, options, levelFilter, currentDateString, files, dirs, now,
                   tz, msgLens, nWrites, nRot, ticks, faulted, calls>>

\* new LogTransport(path, o) for the second transport, before any write: it
\* starts on a copy of the files the first one found.
NewTwin(Givens) ==
    /\ ~twin.built
    /\ nWrites = 0
    /\ ticks = 0
    /\ \E o \in Givens :
          twin' = Twin(o,
                       IF o.method = DATE
                       THEN formatDate(now, tz, Defaults(o).dateFormat)
                       ELSE NoBucket,
                       files, 0, 0, FALSE, last)
    /\ UNCHANGED <<perm, logger, given, ctor, options, levelFilter, currentDateString, files, dirs,
                   now, tz, msgLens, nWrites, nRot, ticks, faulted, last, calls>>

\* The caller turns to the other transport: the two change places.
Exchange ==
    /\ twin.built
    /\ given' = twin.given
    /\ options' = twin.options
    /\ currentDateString' = twin.currentDateString
    /\ files' = twin.files
    /\ nWrites' = twin.nWrites
    /\ nRot' = twin.nRot
    /\ faulted' = twin.faulted
    /\ last' = twin.last
    /\ twin' = Twin(given, currentDateString, files, nWrites, nRot, faulted, last)
    /\ UNCHANGED <<perm, logger, ctor, levelFilter, dirs, now, tz, msgLens, ticks, calls>>

\* What a call of archiveFile did, with its two arguments.
Archived_(sourceFile, archiveFileName, r, pre, preCds) ==
    Last("archive", "INFO", NoMessage, Outcome(r, FALSE, "no", 0, FALSE), pre, preCds)
        @@ [sourceFile |-> sourceFile, archiveFileName |-> archiveFileName]

\* await this.archiveFile(sourceFile, archiveFileName), as the asynchronous
\* rotations call it, with the operations of F failing.
ArchiveFile(Pairs, Faults) ==
    /\ \E pair \in Pairs :
       \E F \in {G \in Faults :
                    \A f \in G : f.p \in {pair[1], Gz(join(options.archiveDir, pair[2]))}} :
       \E r \in {archiveFile(Run(files, currentDateString), pair[1], pair[2], F)} :
          /\ files' = r.files
          /\ faulted' = (faulted \/ r.failed # {})
          /\ last' = Archived_(pair[1], pair[2], r, files, currentDateString)
    /\ UNCHANGED <<perm, twin, logger, given, ctor, options, levelFilter, currentDateString, dirs,
                   now, tz, msgLens, nWrites, nRot, ticks, calls>>

\* PermissionUtils.ensureDirectoryWithFallback(filePath) in one of Worlds.
EnsureDirectory(Worlds, Paths) ==
    /\ ~perm.made
    /\ \E world \in Worlds, path \in Paths :
          perm' = Checked(world, path, ensureDirectoryWithFallback(world, path))
    /\ UNCHANGED <<twin, logger, given, ctor, options, levelFilter, currentDateString, files,
                   dirs, now, tz, msgLens, nWrites, nRot, ticks, faulted, last, calls>>

\* The caller turns to the other transport, the two writing to the same path:
\* they change places and the files stay.
Handover ==
    /\ twin.built
    /\ given' = twin.given
    /\ options' = twin.options
    /\ currentDateString' = twin.currentDateString
    /\ nWrites' = twin.nWrites
    /\ nRot' = twin.nRot
    /\ faulted' = twin.faulted
    /\ last' = twin.last
    /\ twin' = Twin(given, currentDateString, files, nWrites, nRot, faulted, last)
    /\ UNCHANGED <<perm, logger, ctor, levelFilter, files, dirs, now, tz, msgLens, ticks,
                   calls>>

\* An await in write after the rotation, as in the asynchronous rotateFile.
Suspends_afterRotation(stage) == stage = "rotated"

\* The places where a call of write gives the thread to other callbacks: write is
\* synchronous from its first statement to its return, so there is none.
Suspends(stage) == FALSE

\* The calls under way.
UnderWay == {c \in Callers : calls[c].stage # "idle"}

\* A caller calls write: the thread is free (no call under way, or every call
\* under way is suspended); the level check and the rotation check run.
Begin(c, level, len, F, bound) ==
    /\ nWrites + Cardinality(UnderWay) < bound
    /\ calls[c].stage = "idle"
    /\ \A d \in UnderWay : Suspends(calls[d].stage)
    /\ \E message \in {Message(nWrites + Cardinality(UnderWay) + 1, len)} :
       \E r \in {Run(files, currentDateString)} :
          IF ~shouldLog(levelFilter, level)
          THEN /\ last' = Last("write", level, message,
                                Outcome(r, FALSE, "no", 0, FALSE), files, currentDateString)
               /\ UNCHANGED calls
          ELSE \E need \in {needsRotation(r, LogEntry(now, message), F)} :
               \E whole \in {write(level, message, F).run} :
                  /\ calls' = [calls EXCEPT ![c] =
                        Call("checked", level, message, F,
                             IF ~need.ok THEN "threw" ELSE IF need.v THEN "yes" ELSE "no",
                             r, files, currentDateString, UnderWay # {},
                             [files |-> whole.files, cds |-> whole.cds])]
                  /\ UNCHANGED last
    /\ UNCHANGED <<perm, twin, logger, given, ctor, options, levelFilter, currentDateString, files, dirs, now,
                   tz, msgLens, nWrites, nRot, ticks, faulted>>

\* The call goes on to this.rotateFileSync().
Rotate(c) ==
    /\ calls[c].stage = "checked" /\ calls[c].needed = "yes"
    /\ \E r \in {rotateFileSync([calls[c].run EXCEPT !.files = files,
                                                     !.cds = currentDateString],
                                 calls[c].F)} :
          /\ files' = r.files
          /\ currentDateString' = r.cds
          /\ calls' = [calls EXCEPT ![c].stage = "rotated", ![c].run = r]
    /\ nRot' = nRot + 1
    /\ UNCHANGED <<perm, twin, logger, given, ctor, options, levelFilter, dirs, now, tz, msgLens, nWrites,
                   ticks, faulted, last>>

\* The call appends its entry (or falls back to the console) and returns.
Finish(c) ==
    /\ \/ calls[c].stage = "rotated"
       \/ calls[c].stage = "checked" /\ calls[c].needed # "yes"
    /\ \E r \in {[calls[c].run EXCEPT !.files = files, !.cds = currentDateString]},
          logEntry \in {LogEntry(now, calls[c].message)},
          rotated \in {IF calls[c].stage = "rotated" THEN 1 ELSE 0} :
       \E o \in {IF calls[c].needed = "threw"
                  THEN CatchBlock(Outcome([r EXCEPT !.failed = @ \cup
                                              {Fault(IF Fault("stat", filePath) \in calls[c].F
                                                     THEN "stat" ELSE "parse", filePath)}],
                                          TRUE, "threw", 0, TRUE),
                                  calls[c].message)
                  ELSE IF ~CanWrite(filePath, calls[c].F)
                  THEN CatchBlock(Outcome([r EXCEPT !.failed = @ \cup
                                              {Fault("append", filePath)}],
                                          TRUE, calls[c].needed, rotated, TRUE),
                                  calls[c].message)
                  ELSE IF existsSync(r.files, filePath)
                  THEN Outcome(appendFileSync(r, filePath, logEntry), TRUE,
                               calls[c].needed, rotated, FALSE)
                  ELSE Outcome(writeFileSync(r, filePath, logEntry), TRUE,
                               calls[c].needed, rotated, FALSE)} :
          /\ files' = o.run.files
          /\ faulted' = (faulted \/ o.run.failed # {})
          /\ last' = Last("write", calls[c].level, calls[c].message, o,
                          calls[c].pre, calls[c].preCds)
    /\ nWrites' = nWrites + 1
    /\ calls' = [calls EXCEPT ![c].stage = "done"]
    /\ UNCHANGED <<perm, twin, logger, given, ctor, options, levelFilter, currentDateString, dirs, now, tz,
                   msgLens, nRot, ticks>>

\* The caller has its answer and may call again.
Return(c) ==
    /\ calls[c].stage = "done"
    /\ calls' = [calls EXCEPT ![c] = IdleCall]
    /\ UNCHANGED <<perm, twin, logger, given, ctor, options, levelFilter, currentDateString, files, dirs, now,
                   tz, msgLens, nWrites, nRot, ticks, faulted, last>>

\* The variables of the transport, which the logger's operations leave alone.
transportVars ==
    <<given, ctor, options, levelFilter, currentDateString, files, dirs, now, tz,
      msgLens, nWrites, nRot, ticks, faulted, last, calls, twin, perm>>

\* new Flog(className, instanceId, configPath, defaultTransportNames), the
\* file at configPath being one of Files.
NewFlog(Files, NameLists) ==
    /\ ~logger.built
    /\ \E file \in Files, names \in NameLists :
          \E l \in {loadConfig(file)} :
              /\ logger' = Flog(TRUE, file, l,
                                IF names.def THEN names.v ELSE l.v.defaultTransports,
                                NoCall)
              /\ UNCHANGED transportVars

\* logger.error / warn / info / debug / trace (message, options)
LogCall(CallLevels, OptionLevels, Lists) ==
    /\ logger.built
    /\ ~logger.threw
    /\ \E level \in CallLevels, optLevel \in OptionLevels, list \in Lists :
          /\ logger' = [logger EXCEPT
                           !.call = log(logger.config, logger.defaultTransportNames,
                                        level, LogOptions(optLevel, list))]
          /\ UNCHANGED transportVars

-----------------------------------------------------------------------------
(* Specifications *)

Size20B == <<"2", "0", "B">>
Size50B == <<"5", "0", "B">>
SizeTenthK == <<"0", ".", "1", "K">>
SizeInvalid == <<"i", "n", "v", "a", "l", "i", "d", "-", "s", "i", "z", "e">>

\* 2025-01-31T23:00Z, an hour before the day and the month change.
StartInstant == 30 * HoursPerDay + 23

NoFiles == <<>>

\* An active file that is there before the transport and is empty.
EmptyActive == Put(NoFiles, filePath, File(<<>>, 0))

\* A file somebody else put into the archive directory on 2025-01-01.
OldForeign == Put(NoFiles, join(ArchDir, ForeignName), File(<<>>, 0))

GivenOptions(methods, maxSizes, maxFiless, dateFormats, compresss, retentions) ==
    {Options(m, s, f, d, UndefinedStr, c, t) :
        m \in methods, s \in maxSizes, f \in maxFiless, d \in dateFormats,
        c \in compresss, t \in retentions}

IncludeErrorWarn == Filter(Some({"ERROR", "WARN"}), UndefinedList)

\* The transport in general: both methods, a filter or none, directories that
\* could or could not be created, operations that fail.
Init ==
    Construct(GivenOptions({SIZE, DATE}, {Some(Size50B), Some(SizeInvalid)},
                           {Some(2)}, {UndefinedStr}, {UndefinedBool}, {Undefined}),
              {NoFilter, IncludeErrorWarn},
              {{LogDir, ArchDir}, {LogDir}, {ArchDir}},
              {NoFiles}, {StartInstant}, {0}, {{len} : len \in 0..MaxMsgLen})

Next ==
    \/ \E level \in Levels, len \in msgLens, F \in FaultChoices(AllFaults) :
          Write(level, len, F, MaxWrites)
    \/ Tick(HoursPerDay, MaxTicks)

Spec == Init /\ [][Next]_vars

\* SIZE rotation: every maxFiles, entries that fit and entries that do not,
\* renames that fail.
InitSize ==
    Construct(GivenOptions({SIZE}, {Some(Size20B), Some(Size50B), Some(SizeTenthK)},
                           {Some(n) : n \in 1..MaxFilesBound}, {UndefinedStr},
                           {UndefinedBool}, {Undefined}),
              {NoFilter},
              {{LogDir, ArchDir}, {LogDir}},
              {NoFiles, EmptyActive}, {StartInstant}, {0}, {{len} : len \in 0..MaxMsgLen})

NextSize ==
    \E len \in msgLens, F \in FaultChoices({"stat", "append", "rename"}) :
        Write("INFO", len, F, MaxSizeWrites)

SpecSize == InitSize /\ [][NextSize]_vars

\* The scenario of a size limit of 50 bytes, two kept files and entries of one
\* fixed length, nothing failing.
InitScenario ==
    Construct(GivenOptions({SIZE}, {Some(Size50B)}, {Some(2)}, {UndefinedStr},
                           {Some(FALSE)}, {Undefined}),
              {NoFilter}, {{LogDir, ArchDir}}, {NoFiles}, {StartInstant}, {0},
              {{len} : len \in 0..MaxFixedLen})

NextScenario ==
    \E len \in msgLens : Write("INFO", len, {}, ScenarioWrites)

SpecScenario == InitScenario /\ [][NextScenario]_vars

\* Retention: every way of giving retentionDays, an old file in the archive, a
\* clock that moves by a day or by a month, deletions that fail.
InitRetention ==
    Construct(GivenOptions({SIZE}, {Some(Size50B)}, {Some(1), Some(2)}, {UndefinedStr},
                           {UndefinedBool}, {Undefined, Some(0), Some(1), Some(2)}),
              {NoFilter}, {{LogDir, ArchDir}}, {NoFiles, OldForeign},
              {StartInstant}, {0}, {{0}})

NextRetention ==
    \/ \E len \in msgLens, F \in FaultChoices({"unlink", "readdir"}) :
          Write("INFO", len, F, MaxRetentionWrites)
    \/ \E d \in {HoursPerDay, 31 * HoursPerDay} : Tick(d, MaxRetentionTicks)

SpecRetention == InitRetention /\ [][NextRetention]_vars

\* The level filter alone: no filter, every include list, every exclude list, and
\* both lists at once.
AllFilters ==
    {NoFilter, Filter(UndefinedList, UndefinedList)}
    \cup {Filter(Some(inc), UndefinedList) : inc \in SUBSET Levels}
    \cup {Filter(UndefinedList, Some(exc)) : exc \in SUBSET Levels}
    \cup {Filter(Some(inc), Some(exc)) :
            inc \in {{}, {"ERROR"}, {"INFO", "DEBUG"}}, exc \in {{}, {"ERROR"}, {"TRACE"}}}

InitFilter ==
    Construct(GivenOptions({SIZE}, {UndefinedStr}, {Undefined}, {UndefinedStr},
                           {UndefinedBool}, {Undefined}),
              AllFilters, {{LogDir, ArchDir}}, {NoFiles}, {StartInstant}, {0}, {{0}})

NextFilter == \E level \in Levels : Ask(level)

SpecFilter == InitFilter /\ [][NextFilter]_vars

\* Construction: every kind of path, directories that could or could not be
\* created, and the writes that follow.
InitConstruct ==
    ConstructAt({PlainPath, EmptyPath, BlankPath, TraversalPath},
                GivenOptions({SIZE, DATE}, {Some(Size50B)}, {Some(2)}, {UndefinedStr},
                             {UndefinedBool}, {Undefined}),
                {NoFilter},
                {{LogDir, ArchDir, FallbackDir}, {LogDir, FallbackDir},
                 {ArchDir, FallbackDir}, {FallbackDir}},
                {NoFiles}, {StartInstant}, {0}, {{len} : len \in 0..MaxMsgLen})

NextConstruct ==
    \E len \in msgLens, F \in FaultChoices({"append", "rename"}) :
        Write("INFO", len, F, MaxWrites)

SpecConstruct == InitConstruct /\ [][NextConstruct]_vars

\* Several callers of one process on one transport, write taken step by step.
InitSteps ==
    Construct(GivenOptions({SIZE, DATE}, {Some(Size20B), Some(Size50B), Some(SizeInvalid)},
                           {Some(2)}, {UndefinedStr}, {UndefinedBool}, {Undefined}),
              {NoFilter, IncludeErrorWarn}, {{LogDir, ArchDir}, {LogDir}},
              {NoFiles}, {StartInstant}, {0}, {{len} : len \in 0..MaxMsgLen})

NextSteps ==
    \/ \E c \in Callers, level \in {"ERROR", "INFO"}, len \in msgLens,
          F \in FaultChoices({"append", "rename"}) :
          Begin(c, level, len, F, MaxStepWrites)
    \/ \E c \in Callers : Rotate(c)
    \/ \E c \in Callers : Finish(c)
    \/ \E c \in Callers : Return(c)
    \/ UnderWay = {} /\ Tick(HoursPerDay, MaxTicks)

SpecSteps == InitSteps /\ [][NextSteps]_vars

\* The sequences over S of length at most n.
SeqsUpTo(S, n) == UNION {[1..k -> S] : k \in 0..n}

OnlyErrors == Filter(Some({"error"}), UndefinedList)
IncludeAndExclude == Filter(Some({"error"}), Some({"debug"}))
IncludeUnknown == Filter(Some({"verbose"}), UndefinedList)

\* The entries of the configuration files: a console transport, a rotating log
\* transport, and entries the loader cannot build.
TransportConfigs ==
    {TransportConfig("console", "console", <<>>, "", NoFilter),
     TransportConfig("errors", "log", PlainPath, SIZE, OnlyErrors),
     TransportConfig("nopath", "log", <<>>, SIZE, NoFilter),
     TransportConfig("nomethod", "log", PlainPath, "", NoFilter),
     TransportConfig("hourly", "log", PlainPath, "hourly", NoFilter),
     TransportConfig("both", "console", <<>>, "", IncludeAndExclude),
     TransportConfig("verbose", "console", <<>>, "", IncludeUnknown),
     TransportConfig("syslog", "syslog", <<>>, "", NoFilter)}

\* The keys of a JSON object differ.
DistinctNames(entries) ==
    \A i, j \in 1..Len(entries) : entries[i].name = entries[j].name => i = j

Unparsable == FileConfig(TRUE, FALSE, "", UndefinedBool, FALSE, UndefinedSeq, UndefinedSeq)

\* The configuration files with at most MaxTransports transports.
LoaderFiles ==
    {NoFile, Unparsable} \cup
    {FileConfig(TRUE, TRUE, level, timestamp, isArray, transports, defaultTransports) :
        level \in {"", "debug", "verbose"}, timestamp \in {UndefinedBool, Some(TRUE)},
        isArray \in BOOLEAN,
        transports \in {UndefinedSeq} \cup
            {Some(s) : s \in {e \in SeqsUpTo(TransportConfigs, MaxTransports) :
                                 DistinctNames(e)}},
        defaultTransports \in {UndefinedSeq, Some(<<"errors">>)}}

\* Loggers built from configuration files.
InitLoader ==
    Construct(GivenOptions({SIZE}, {Some(Size50B)}, {Some(2)}, {UndefinedStr},
                           {UndefinedBool}, {Undefined}),
              {NoFilter}, {{LogDir, ArchDir}}, {NoFiles}, {StartInstant}, {0}, {{0}})

NextLoader == NewFlog(LoaderFiles, {UndefinedSeq})

SpecLoader == InitLoader /\ [][NextLoader]_vars

\* A file with named transports and a file with a list of transports.
NamedFile ==
    FileConfig(TRUE, TRUE, "debug", UndefinedBool, FALSE,
               Some(<<TransportConfig("console", "console", <<>>, "", NoFilter),
                      TransportConfig("errors", "log", PlainPath, SIZE, OnlyErrors)>>),
               UndefinedSeq)
ListFile ==
    FileConfig(TRUE, TRUE, "", UndefinedBool, TRUE,
               Some(<<TransportConfig("console", "console", <<>>, "", NoFilter)>>),
               UndefinedSeq)

\* The members a caller lists in options.transports: names, one of them a name
\* of every object, and an instance of their own.
ListItems ==
    {Item("name", "console"), Item("name", "constructor"), Item("instance", "custom")}

\* A logger built from a configuration file, and the calls of its methods.
InitLogger == InitLoader

NextLogger ==
    \/ NewFlog({NoFile, NamedFile, ListFile}, {UndefinedSeq, Some(<<"errors">>)})
    \/ LogCall(Levels, {"", "ERROR", "TRACE"},
               {UndefinedSeq} \cup {Some(l) : l \in SeqsUpTo(ListItems, MaxListed)})

SpecLogger == InitLogger /\ [][NextLogger]_vars

\* Loggers built from every configuration file, and the calls that name no
\* transports.
InitDefaults == InitLoader

NextDefaults ==
    \/ NewFlog(LoaderFiles, {UndefinedSeq})
    \/ LogCall(Levels, {""}, {UndefinedSeq})

SpecDefaults == InitDefaults /\ [][NextDefaults]_vars

\* The bucket of the start, as the default format names it.
StartBucket == formatDate(StartInstant, 0, "YYYY-MM-DD")

\* Archived segments of the start's bucket that earlier runs have left, plain
\* or compressed, written the day before the start.
Earlier(names) ==
    [p \in {join(ArchDir, n) : n \in names} |-> File(<<>>, StartInstant - HoursPerDay)]

EarlierArchives ==
    {Earlier(names) :
        names \in {{}, {DateName(StartBucket, 0)}, {Gz(DateName(StartBucket, 0))},
                   {DateName(StartBucket, 1)},
                   {DateName(StartBucket, 0), DateName(StartBucket, 1)},
                   {DateName(StartBucket, 0), Gz(DateName(StartBucket, 1))},
                   {Gz(DateName(StartBucket, 0)), DateName(StartBucket, 1)}}}

\* Date-suffixed files in the active directory from before archiving: one for
\* each of the first k days of January, written on its day.
Legacy(k) ==
    [p \in {join(LogDir, DateName(<<2025, 1, d, -1>>, 0)) : d \in 1..k} |->
        File(<<>>, (p.bucket[3] - 1) * HoursPerDay)]

\* The files of two directories together.
Both(fs, gs) == [p \in DOMAIN fs \cup DOMAIN gs |-> IF p \in DOMAIN fs THEN fs[p] ELSE gs[p]]

\* DATE rotation: maxFiles given or not, archive names taken by earlier runs,
\* date-suffixed files in the active directory, a clock that moves by an hour
\* or a day, moves and deletions that fail.
InitDate ==
    Construct(GivenOptions({DATE}, {UndefinedStr}, {Undefined, Some(1)},
                           {UndefinedFormat, Some("YYYY-MM-DD-HH")},
                           {UndefinedBool}, {Undefined}),
              {NoFilter}, {{LogDir, ArchDir}, {LogDir}},
              {Both(a, l) : a \in EarlierArchives,
                            l \in {Legacy(0), Legacy(2), Legacy(DefaultMaxFiles + 1)}},
              {StartInstant}, {0}, {{0}})

NextDate ==
    \/ \E len \in msgLens, F \in FaultChoices({"append", "rename", "unlink"}) :
          Write("INFO", len, F, MaxDateWrites)
    \/ \E d \in {1, HoursPerDay} : Tick(d, MaxDateTicks)

SpecDate == InitDate /\ [][NextDate]_vars

\* What an earlier run has left: an active file with one entry written the day
\* before the start, a numbered sibling, and a file in the archive directory
\* from 2025-01-01.
Inherited ==
    LET earlier == LogEntry(StartInstant - HoursPerDay, Message(0, 0))
    IN Put(Put(OldForeign, filePath, File(<<earlier>>, StartInstant - HoursPerDay)),
           join(LogDir, IndexName(1)), File(<<>>, StartInstant - 2 * HoursPerDay))

\* The write that does not rotate: both methods, a limit the fourth entry
\* exceeds, a retention of a day, files of an earlier run or none, a clock that
\* moves by a day, a size check and an append that fail.
InitFrame ==
    Construct(GivenOptions({SIZE, DATE}, {Some(SizeTenthK)}, {Some(2)}, {UndefinedFormat},
                           {UndefinedBool}, {Some(1)}),
              {NoFilter, IncludeErrorWarn}, {{LogDir, ArchDir}}, {NoFiles, Inherited},
              {StartInstant}, {0}, {{len} : len \in 0..MaxMsgLen})

NextFrame ==
    \/ \E level \in {"INFO", "ERROR"}, len \in msgLens,
          F \in FaultChoices({"stat", "append"}) :
          Write(level, len, F, MaxFrameWrites)
    \/ Tick(HoursPerDay, MaxFrameTicks)

SpecFrame == InitFrame /\ [][NextFrame]_vars

Size52B == <<"5", "2", "B">>

\* The two triggers: both methods, a limit two entries reach exactly, a limit
\* every entry exceeds and one that does not parse, the three date formats, a
\* clock that moves by an hour or a day, an active file that is there or not.
InitTrigger ==
    Construct(GivenOptions({SIZE, DATE}, {Some(Size20B), Some(Size52B), Some(SizeInvalid)},
                           {Some(2)},
                           {UndefinedFormat, Some("YYYY-MM-DD-HH"), Some("YYYY-MM")},
                           {UndefinedBool}, {Undefined}),
              {NoFilter}, {{LogDir, ArchDir}}, {NoFiles, EmptyActive},
              {StartInstant}, {0}, {{len} : len \in 0..MaxMsgLen})

NextTrigger ==
    \/ \E len \in msgLens, F \in FaultChoices({"stat", "append"}) :
          Write("INFO", len, F, MaxWrites)
    \/ \E d \in {1, HoursPerDay} : Tick(d, MaxTicks)

SpecTrigger == InitTrigger /\ [][NextTrigger]_vars

\* The field of the options that the method does not select.
InactiveField(o) == IF o.method = DATE THEN "maxSize" ELSE "dateFormat"

\* The options that differ from o in that field only.
DifferInInactive(o, Givens) ==
    {a \in Givens : /\ a # o
                    /\ \A f \in DOMAIN o \ {InactiveField(o)} : a[f] = o[f]}

TriggerOptions ==
    GivenOptions({SIZE, DATE},
                 {UndefinedStr, Some(Size20B), Some(Size52B), Some(SizeInvalid)},
                 {Some(2)},
                 {UndefinedFormat, Some("YYYY-MM-DD-HH"), Some("YYYY-MM")},
                 {UndefinedBool}, {Undefined})

\* Two transports whose options differ in the field their method does not
\* select: the caller writes the same message to one and then to the other at
\* the same instant, the operations that failed for the first failing for the
\* second, and the clock moves between two such pairs of writes.
InitTwin ==
    Construct(TriggerOptions, {NoFilter}, {{LogDir, ArchDir}, {LogDir}},
              {NoFiles, EmptyActive}, {StartInstant}, {0}, {{0}, {MaxMsgLen}})

\* The caller writes to the two transports in turn, and the clock moves between
\* two pairs of writes.
InTurn(ops) ==
    \/ /\ twin.built
       /\ nWrites = twin.nWrites
       /\ \E len \in msgLens, F \in FaultChoices(ops) :
             Write("INFO", len, F, MaxTwinWrites)
    \/ /\ twin.built
       /\ nWrites < twin.nWrites
       /\ \E len \in msgLens : Write("INFO", len, twin.last.failed, MaxTwinWrites)
    \/ /\ twin.built
       /\ nWrites = twin.nWrites + 1
       /\ Exchange
    \/ /\ twin.built
       /\ nWrites = twin.nWrites
       /\ \E d \in {1, HoursPerDay} : Tick(d, MaxTwinTicks)

NextTwin ==
    \/ NewTwin(DifferInInactive(given, TriggerOptions))
    \/ InTurn({"stat", "append", "rename"})

SpecTwin == InitTwin /\ [][NextTwin]_vars

\* The options that differ from o in compress only, and in what it comes to.
DifferInCompress(o, Givens) ==
    {a \in Givens : /\ Defaults(a).compress # Defaults(o).compress
                    /\ \A f \in DOMAIN o \ {"compress"} : a[f] = o[f]}

CompressOptions ==
    GivenOptions({SIZE, DATE}, {Some(Size20B)}, {Some(1), Some(2)}, {UndefinedFormat},
                 {UndefinedBool, Some(TRUE), Some(FALSE)}, {Undefined})

\* Two transports whose options differ in compress, writing in turn, with
\* archives of earlier runs, compressed or not, in the archive directory.
InitCompress ==
    Construct(CompressOptions, {NoFilter}, {{LogDir, ArchDir}, {LogDir}},
              {NoFiles, EmptyActive,
               Earlier({Gz(DateName(StartBucket, 0))}),
               Earlier({DateName(StartBucket, 0), Gz(DateName(StartBucket, 1))})},
              {StartInstant}, {0}, {{0}})

NextCompress ==
    \/ NewTwin(DifferInCompress(given, CompressOptions))
    \/ InTurn({"append", "rename"})

SpecCompress == InitCompress /\ [][NextCompress]_vars

\* Two loggers that loaded the same configuration: two DATE transports with the
\* same options on the same path, constructed at the same instant in empty
\* directories, writing in any order; the clock moves once the active file is
\* there, so that neither transport creates it in a later bucket than the one
\* it recorded.
InitShared ==
    Construct(GivenOptions({DATE}, {UndefinedStr}, {Undefined},
                           {UndefinedFormat, Some("YYYY-MM-DD-HH")},
                           {UndefinedBool}, {Undefined}),
              {NoFilter}, {{LogDir, ArchDir}}, {NoFiles}, {StartInstant}, {0}, {{0}})

NextShared ==
    \/ NewTwin({given})
    \/ \E len \in msgLens : Write("INFO", len, {}, MaxSharedWrites)
    \/ Handover
    \/ /\ filePath \in DOMAIN files
       /\ \E d \in {1, HoursPerDay} : Tick(d, MaxSharedTicks)

SpecShared == InitShared /\ [][NextShared]_vars

\* The directory of the requested path, when it is none of the fallbacks.
RequestedDir == "log"

\* Every state of the requested directory and of the three fallback
\* directories, homedir() throwing or not, and a requested path in a directory
\* of its own or in the last fallback directory.
PermissionWorlds ==
    {[kind |-> k, throws |-> t] :
        k \in [{RequestedDir} \cup {FALLBACK_DIRS[i] : i \in 1..Len(FALLBACK_DIRS)}
                  -> NodeKinds],
        t \in {{}, {"home"}}}

InitPermission ==
    Construct(GivenOptions({SIZE}, {Some(Size50B)}, {Some(2)}, {UndefinedStr},
                           {UndefinedBool}, {Undefined}),
              {NoFilter}, {{LogDir, ArchDir}}, {NoFiles}, {StartInstant}, {0}, {{0}})

NextPermission ==
    EnsureDirectory(PermissionWorlds, {<<RequestedDir, "app.log">>, <<"cwd", "app.log">>})

SpecPermission == InitPermission /\ [][NextPermission]_vars

\* The calls of archiveFile that the asynchronous rotations make: the oldest kept
\* file under its own name (SIZE), the active file under the name of its bucket
\* (DATE).
ArchivePairs ==
    {<<join(LogDir, IndexName(1)), IndexName(1)>>,
     <<filePath, DateName(StartBucket, 0)>>}

\* The operations that can fail in one call of archiveFile.
ArchiveFaults ==
    SUBSET ({Fault("open", Gz(join(ArchDir, pair[2]))) : pair \in ArchivePairs}
            \cup {Fault(op, pair[1]) : op \in {"compress", "unlink", "rename"},
                                       pair \in ArchivePairs})

\* archiveFile with and without compression, with an archive directory that is
\* or is not there, applied to files that writes and rotations have made, every
\* combination of its steps failing.
InitArchive ==
    Construct(GivenOptions({SIZE}, {Some(Size50B)}, {Some(2)}, {UndefinedStr},
                           {UndefinedBool, Some(TRUE), Some(FALSE)}, {Undefined}),
              {NoFilter}, {{LogDir, ArchDir}, {LogDir}}, {NoFiles, EmptyActive},
              {StartInstant}, {0}, {{0}})

NextArchive ==
    \/ \E len \in msgLens : Write("INFO", len, {}, MaxArchiveWrites)
    \/ ArchiveFile(ArchivePairs, ArchiveFaults)

SpecArchive == InitArchive /\ [][NextArchive]_vars

-----------------------------------------------------------------------------
(* What the claims speak of *)

\* The last operation was a call of write.
Wrote == last.kind = "write"

\* The entry the last write made of its message.
TheEntry == LogEntry(now, last.message)

\* The file at path p of fs holds entry e.
Holds(fs, p, e) ==
    /\ p \in DOMAIN fs
    /\ \E i \in 1..Len(fs[p].content) : fs[p].content[i] = e

\* The content of the file at p, nothing if there is no file.
ContentOf(fs, p) == IF p \in DOMAIN fs THEN fs[p].content ELSE <<>>

\* The last write's move of the active file, and its append, failed.
MoveFailed == Fault("rename", filePath) \in last.failed
AppendFailed == Fault("append", filePath) \in last.failed

\* The numbered siblings of the active file, and the files of the archive.
Siblings(fs) == {p \in DOMAIN fs : p.dir = LogDir /\ p.kind = "index"}
Archived(fs) == {p \in DOMAIN fs : p.dir = options.archiveDir}

-----------------------------------------------------------------------------
(* C1 *)

\* C1, as claimed: whenever the rotation check asks for a rotation, the entry is
\* not appended to the file that was active before it: the active file holds the
\* entry alone.
C1_Original ==
    (Wrote /\ last.needed = "yes" /\ Holds(files, filePath, TheEntry))
        => files[filePath].content = <<TheEntry>>

\* C1, amended: whenever the rotation check asks for a rotation, the rotation runs,
\* and runs before the append (no rotated or archived file holds the entry); if
\* the rotation moved the active file away the entry lands alone in a new active
\* file, and if that move failed the entry is appended to the old active file.
C1_RotationBeforeAppend ==
    (Wrote /\ last.needed = "yes") =>
        /\ last.rotated = 1
        /\ \A p \in DOMAIN files \ {filePath} : ~Holds(files, p, TheEntry)
        /\ (~AppendFailed /\ ~MoveFailed) => files[filePath].content = <<TheEntry>>
        /\ (~AppendFailed /\ MoveFailed) =>
              files[filePath].content = Append(ContentOf(last.pre, filePath), TheEntry)

\* A rotation moved a non-empty active file away and the entry started a new one.
C1_Witness ==
    /\ Wrote /\ last.needed = "yes" /\ ~MoveFailed
    /\ ContentOf(last.pre, filePath) # <<>>
    /\ ContentOf(files, filePath) = <<TheEntry>>

-----------------------------------------------------------------------------
(* C2 *)

\* C2: write never throws to its caller, whatever fails; when the entry did not
\* get into the active file, console.error got one diagnostic and console.log got
\* the raw message, once.
C2_NeverThrows ==
    Wrote =>
        /\ ~last.threw
        /\ (last.admitted /\ ~Holds(files, filePath, TheEntry)) =>
              (last.conErr = 1 /\ last.conLog = <<last.message>>)

\* A write with an unparsable maxSize fell back to the console.
C2_Witness ==
    /\ Wrote /\ last.admitted
    /\ ~parseSize(options.maxSize).ok
    /\ Fault("parse", filePath) \in last.failed
    /\ last.conLog = <<last.message>>

-----------------------------------------------------------------------------
(* C3 *)

\* The active file after a write that appended one line: the line alone if the
\* rotation moved the old file away, the old content and the line otherwise.
OneLineAppended ==
    files[filePath].content =
        IF last.rotated = 1 /\ ~MoveFailed
        THEN <<TheEntry>>
        ELSE Append(ContentOf(last.pre, filePath), TheEntry)

\* C3, as claimed: a write of a rejected level changes nothing, and a write of an
\* admitted level appends exactly one line to the active file.
C3_Original ==
    Wrote =>
        IF shouldLog(levelFilter, last.level)
        THEN filePath \in DOMAIN files /\ OneLineAppended
        ELSE files = last.pre /\ currentDateString = last.preCds

\* C3, amended: a write of a rejected level changes nothing and rotates nothing; a
\* write of an admitted level appends exactly one line to the active file unless
\* it falls back to the console, and then it appends none.
C3_RejectedChangesNothing ==
    Wrote =>
        IF shouldLog(levelFilter, last.level)
        THEN IF last.conLog = <<>>
             THEN filePath \in DOMAIN files /\ OneLineAppended
             ELSE \A p \in DOMAIN files : ~Holds(files, p, TheEntry)
        ELSE /\ files = last.pre
             /\ currentDateString = last.preCds
             /\ last.rotated = 0 /\ last.warns = 0
             /\ last.conLog = <<>> /\ last.conErr = 0

\* A rejected write on a transport whose date has changed since the active file
\* was written: the rotation condition holds, and nothing happens.
C3_Witness ==
    /\ Wrote /\ ~shouldLog(levelFilter, last.level)
    /\ options.method = DATE
    /\ filePath \in DOMAIN files
    /\ currentDateString # formatDate(now, tz, options.dateFormat)

-----------------------------------------------------------------------------
(* C4 *)

\* C4: shouldLog is true without a filter, is "the level is in include" with an
\* include list, and is "the level is not in exclude" with an exclude list (and
\* no include list).
C4_ShouldLog ==
    last.kind = "ask" =>
        /\ ~levelFilter.has => last.admitted
        /\ (levelFilter.has /\ levelFilter.include.def) =>
              (last.admitted <=> last.level \in levelFilter.include.v)
        /\ (levelFilter.has /\ ~levelFilter.include.def /\ levelFilter.exclude.def) =>
              (last.admitted <=> last.level \notin levelFilter.exclude.v)
        /\ (levelFilter.has /\ ~levelFilter.include.def /\ ~levelFilter.exclude.def) =>
              last.admitted

\* An exclude list turned a listed level away.
C4_Witness ==
    /\ last.kind = "ask"
    /\ levelFilter.has /\ ~levelFilter.include.def /\ levelFilter.exclude.def
    /\ last.level \in levelFilter.exclude.v
    /\ ~last.admitted

-----------------------------------------------------------------------------
(* C5 *)

\* Every entry the callers can write is larger than maxSizeBytes by itself.
AllExceed ==
    /\ options.method = SIZE
    /\ parseSize(options.maxSize).ok
    /\ \A len \in msgLens :
          byteLength(LogEntry(now, Message(0, len))) > parseSize(options.maxSize).v

\* C5, as claimed: when every entry exceeds maxSizeBytes by itself, each write
\* performs exactly one rotation and leaves the active file with its entry alone
\* (here with nothing failing, in this write or before).
C5_Original ==
    (AllExceed /\ Wrote /\ last.admitted /\ ~faulted) =>
        /\ last.rotated = 1
        /\ ContentOf(files, filePath) = <<TheEntry>>

\* C5, amended: when every entry exceeds maxSizeBytes by itself, a write that
\* finds the active file performs exactly one rotation and a write that finds
\* none performs no rotation; after a write whose rename of the active file and
\* whose append succeeded the active file holds the entry of that write alone.
C5_OneRotationPerWrite ==
    (AllExceed /\ Wrote /\ last.admitted /\ Fault("stat", filePath) \notin last.failed) =>
        /\ last.rotated = (IF filePath \in DOMAIN last.pre THEN 1 ELSE 0)
        /\ (~MoveFailed /\ ~AppendFailed) => ContentOf(files, filePath) = <<TheEntry>>

\* The third write in a row that rotated and left its entry alone.
C5_Witness ==
    /\ AllExceed /\ Wrote /\ last.rotated = 1 /\ nRot >= 3
    /\ ContentOf(files, filePath) = <<TheEntry>>

-----------------------------------------------------------------------------
(* C6 *)

\* C6, as claimed: with maxSize "50B" and maxFiles 2, five entries of one fixed
\* length make exactly two rotations.
C6_Original == nWrites = 5 => nRot = 2

\* C6, amended: with maxSize "50B" and maxFiles 2, five entries of one fixed
\* length (24 characters of timestamp, a space, the message, a newline) make
\* exactly four rotations, one for each write after the first, and the final
\* active file holds exactly the fifth entry.
C6_FourRotations ==
    nWrites = 5 =>
        /\ nRot = 4
        /\ Len(ContentOf(files, filePath)) = 1
        /\ ContentOf(files, filePath)[1].msg.id = 5

\* Five entries are written.
C6_Witness == nWrites = 5 /\ nRot = 4 /\ last.message.len = 0

-----------------------------------------------------------------------------
(* C7 *)

\* C7, as claimed: with maxFiles 2 and empty directories at the start, after
\* three rotations the archive holds exactly one file, that file holds the first
\* rotated segment, and there are at most maxFiles - 1 numbered siblings.
C7_Claim ==
    (options.maxFiles = 2 /\ nRot = 3) =>
        /\ Cardinality(Archived(files)) = 1
        /\ \A p \in Archived(files) :
              /\ files[p].content # <<>>
              /\ \A i \in 1..Len(files[p].content) : files[p].content[i].msg.id = 1
        /\ Cardinality(Siblings(files)) <= options.maxFiles - 1

\* After three rotations the one archived file holds the second segment.
C7_Witness ==
    /\ options.maxFiles = 2 /\ nRot = 3
    /\ Cardinality(Archived(files)) = 1
    /\ \A p \in Archived(files) : files[p].content[1].msg.id = 2

-----------------------------------------------------------------------------
(* C8 *)

\* C8: under SIZE rotation there are never more than maxFiles numbered siblings
\* in the active directory.
C8_AtMostMaxFilesSiblings ==
    options.method = SIZE => Cardinality(Siblings(files)) <= options.maxFiles

\* With maxFiles 1 the one sibling is there and is written over by the next
\* rotation.
C8_Witness ==
    /\ options.maxFiles = 1 /\ nRot >= 2
    /\ Cardinality(Siblings(files)) = options.maxFiles

-----------------------------------------------------------------------------
(* C9 *)

\* C9, as claimed: no rename of a SIZE rotation has an existing numbered sibling
\* as its target.
C9_Claim ==
    Wrote => \A p \in last.overw : ~(p.dir = LogDir /\ p.kind = "index")

\* With maxFiles 1 and nothing failing, the second rotation writes over name.1.
C9_Witness ==
    /\ Wrote /\ ~faulted /\ options.maxFiles = 1
    /\ join(LogDir, IndexName(1)) \in last.overw
    /\ ContentOf(last.pre, join(LogDir, IndexName(1))) # <<>>

-----------------------------------------------------------------------------
(* C10 *)

\* C10, as claimed: a transport constructed with retentionDays = 0 deletes no
\* file of the archive directory.
C10_Claim ==
    (given.retentionDays = Some(0) /\ Wrote) =>
        \A p \in last.dels : p.dir # options.archiveDir

\* A transport constructed with retentionDays = 0 deleted an archived file.
C10_Witness ==
    /\ given.retentionDays = Some(0) /\ Wrote /\ ~faulted
    /\ \E p \in last.dels : p.dir = options.archiveDir

-----------------------------------------------------------------------------
(* C11 *)

\* The cutoff of the retentionDays the transport was constructed with.
GivenCutoff == now - given.retentionDays.v * HoursPerDay

\* The last write rotated, and nothing of its retention cleanup failed.
CleanPass ==
    /\ Wrote /\ last.rotated = 1
    /\ \A f \in last.failed : f.op \notin {"unlink", "readdir"}

\* C11: with retentionDays > 0 and no failure of the cleanup, after every rotation
\* pass no file of the archive directory has a modification time before now minus
\* retentionDays days, and no file deleted from the archive directory had a
\* modification time at or after that cutoff.
C11_RetentionCutoff ==
    (given.retentionDays.def /\ given.retentionDays.v > 0 /\ CleanPass) =>
        /\ \A p \in Archived(files) : files[p].mtime >= GivenCutoff
        /\ \A d \in last.delFiles :
              d.p.dir = options.archiveDir => d.mtime < GivenCutoff

\* A rotation pass deleted an expired archive file and kept one whose modification
\* time is the cutoff itself.
C11_Witness ==
    /\ given.retentionDays.def /\ given.retentionDays.v > 0 /\ CleanPass
    /\ \E d \in last.delFiles : d.p.dir = options.archiveDir
    /\ \E p \in Archived(files) : files[p].mtime = GivenCutoff

-----------------------------------------------------------------------------
(* C12 *)

\* C12, as claimed: constructing the transport with an empty path or a path with
\* a parent-traversal segment fails with an InvalidPath error: the constructor
\* throws and there is no transport to write with.
C12_Claim == ~validateFilePath(ctor.requested) => (ctor.threw /\ nWrites = 0)

\* A transport constructed with a path through '..' has written an entry to its
\* file.
C12_Witness ==
    /\ ctor.requested = TraversalPath /\ ~ctor.threw
    /\ Wrote /\ Holds(files, filePath, TheEntry)

-----------------------------------------------------------------------------
(* C13 *)

\* The constructor could not create the directory of the requested path.
LogDirFailed == "Failed to create log directory" \in ctor.warned

\* C13, as claimed: when the directory of the requested path cannot be created,
\* the constructor does not throw, relocates the active path to the first usable
\* fallback directory, warns of the fallback, and every later write lands in the
\* fallback directory and not in the original one.
C13_Claim ==
    (validateFilePath(ctor.requested) /\ LogDirFailed) =>
        /\ ~ctor.threw
        /\ ctor.activeDir = FallbackDir
        /\ "Using fallback directory" \in ctor.warned
        /\ (Wrote /\ last.admitted /\ ~AppendFailed) =>
              /\ Holds(files, join(FallbackDir, filePath), TheEntry)
              /\ ~Holds(files, filePath, TheEntry)

\* The directory could not be created, the fallback directory is there, and the
\* write went to the console.
C13_Witness ==
    /\ validateFilePath(ctor.requested) /\ LogDirFailed /\ FallbackDir \in dirs
    /\ Wrote /\ last.admitted /\ last.conLog = <<last.message>>
    /\ readdirSync(files, FallbackDir) = {}

-----------------------------------------------------------------------------
(* C14 *)

\* The transport rotates by size and its maxSize is the string 'invalid-size'.
UnparsableLimit == options.method = SIZE /\ options.maxSize = SizeInvalid

\* The last write got as far as parsing maxSize, and parseSize threw.
ParseThrew == Fault("parse", filePath) \in last.failed

\* C14, as claimed: with an unparsable maxSize under SIZE rotation, the first
\* operation that needs the size limit raises an error that reaches the caller.
C14_Original == (UnparsableLimit /\ Wrote /\ ParseThrew) => last.threw

\* C14, amended: with an unparsable maxSize under SIZE rotation, every write that
\* finds the active file (and can stat it) raises the invalid-size error inside
\* write, which catches it: the caller sees no error, console.error gets one
\* diagnostic, console.log the raw message, and no file changes; a write that
\* finds no active file does not need the limit and raises nothing.
C14_SwallowedInWrite ==
    (UnparsableLimit /\ Wrote /\ last.admitted) =>
        IF filePath \in DOMAIN last.pre
        THEN Fault("stat", filePath) \notin last.failed =>
                /\ ParseThrew /\ ~last.threw
                /\ last.conErr = 1 /\ last.conLog = <<last.message>>
                /\ files = last.pre /\ last.rotated = 0
        ELSE /\ ~ParseThrew /\ ~last.threw
             /\ ~AppendFailed => ContentOf(files, filePath) = <<TheEntry>>

\* The second write of a transport with an unparsable maxSize went to the
\* console, the first one being in the file.
C14_Witness ==
    /\ UnparsableLimit /\ Wrote /\ ParseThrew
    /\ last.conLog = <<last.message>>
    /\ Len(ContentOf(files, filePath)) = 1

-----------------------------------------------------------------------------
(* C15 *)

\* The archive directory is not there: the constructor could not create it.
NoArchiveDir == options.archiveDir \notin dirs

\* The files of the active directory other than the active file.
Beside(fs) == [p \in {q \in DOMAIN fs : q.dir = LogDir /\ q # filePath} |-> fs[p]]

\* C15, as claimed: when the archive directory does not exist and could not be
\* created, a rotation attempt only warns: no file of the active directory is
\* renamed, overwritten or deleted (the active file stays and takes the entry),
\* and the write does not throw.
C15_Claim ==
    (NoArchiveDir /\ Wrote /\ last.rotated = 1) =>
        /\ ~last.threw
        /\ last.warns >= 1
        /\ Beside(files) = Beside(last.pre)
        /\ last.overw = {} /\ last.dels = {}
        /\ ~AppendFailed =>
              ContentOf(files, filePath) = Append(ContentOf(last.pre, filePath), TheEntry)

\* Without an archive directory and with maxFiles 2 a rotation moved the active
\* file over name.1, which could not be moved to the archive.
C15_Witness ==
    /\ NoArchiveDir /\ Wrote /\ last.rotated = 1 /\ ~last.threw
    /\ options.maxFiles = 2
    /\ last.failed = {Fault("rename", join(LogDir, IndexName(1)))}
    /\ join(LogDir, IndexName(1)) \in last.overw

-----------------------------------------------------------------------------
(* C16 *)

\* The calls of write that have begun and not yet appended.
Running == {c \in Callers : calls[c].stage \in {"checked", "rotated"}}

\* C16: the calls of write on one transport never interleave: at most one call is
\* between its rotation check and its append, no call begins while another is
\* under way (none finds the state between rotation and append, none waits in a
\* queue), and a call that has returned has left the files and currentDateString
\* as a write run in one piece leaves them.
C16_NoInterleaving ==
    /\ Cardinality(Running) <= 1
    /\ Cardinality(UnderWay) <= 1
    /\ \A c \in Callers :
          /\ calls[c].stage # "idle" => ~calls[c].saw
          /\ calls[c].stage = "done" =>
                /\ files = calls[c].whole.files
                /\ currentDateString = calls[c].whole.cds

\* A call has rotated and not yet appended: the active file is absent, and the
\* other caller, who has written before, has not begun.
C16_Witness ==
    /\ \E c \in Callers :
          /\ calls[c].stage = "rotated"
          /\ \A d \in Callers \ {c} : calls[d].stage = "idle"
    /\ filePath \notin DOMAIN files
    /\ nWrites >= 2

-----------------------------------------------------------------------------
(* C17 *)

\* An entry of the kinds the loader cannot build: a log transport without path,
\* without method or with a method other than size and date, or an entry whose
\* level filter has both lists.
InvalidEntry(e) ==
    \/ e.type = "log" /\ e.path = <<>>
    \/ e.type = "log" /\ e.method = ""
    \/ e.type = "log" /\ e.method \notin {"size", "date"}
    \/ e.levels.has /\ e.levels.include.def /\ e.levels.exclude.def

MakesInvalid(file) ==
    /\ file.exists
    /\ file.parses
    /\ file.transports.def
    /\ \E i \in 1..Len(file.transports.v) : InvalidEntry(file.transports.v[i])

\* C17: loadConfig never throws, and for a file with an invalid transport it
\* prints the warning and returns the default configuration: 'console' its only
\* transport and only default transport, level INFO and no timestamp whatever
\* the file says.
C17_InvalidTransportFallsBack ==
    logger.built =>
        /\ ~logger.threw
        /\ MakesInvalid(logger.file) =>
              /\ FailedToLoadWarning \in logger.warned
              /\ Keys(logger.config.transports) = <<"console">>
              /\ logger.config.transports[1].type = "console"
              /\ logger.config.defaultTransports = <<"console">>
              /\ logger.defaultTransportNames = <<"console">>
              /\ logger.config.level = "INFO"
              /\ logger.config.timestamp = FALSE

\* A file whose first transport is a good log transport and whose second is
\* invalid, with a level, a timestamp and default transports of its own.
C17_Witness ==
    /\ logger.built
    /\ MakesInvalid(logger.file)
    /\ Len(logger.file.transports.v) = 2
    /\ logger.file.transports.v[1].type = "log"
    /\ ~InvalidEntry(logger.file.transports.v[1])
    /\ logger.file.level = "debug"
    /\ logger.file.timestamp = Some(TRUE)
    /\ logger.file.defaultTransports.def
    /\ logger.config = DEFAULT_CONFIG

-----------------------------------------------------------------------------
(* C18 *)

\* The place of a level in the order ERROR < WARN < INFO < DEBUG < TRACE.
Severity(level) ==
    CASE level = "ERROR" -> 0 [] level = "WARN" -> 1 [] level = "INFO" -> 2
      [] level = "DEBUG" -> 3 [] level = "TRACE" -> 4

\* The effective minimum level of the last call.
EffectiveLevel ==
    IF logger.call.options.level # "" THEN logger.call.options.level
    ELSE logger.config.level

\* The last call is at or before its effective level.
AtOrBefore == Severity(logger.call.level) <= Severity(EffectiveLevel)

\* The name is a key of the configured transports.
Configured(name) ==
    \E i \in 1..Len(logger.config.transports) : logger.config.transports[i].name = name

AllConfigured(items) ==
    \A i \in 1..Len(items) : items[i].kind = "name" => Configured(items[i].id)

\* C18: a call that is not rejected for its level and has options.transports
\* delivers to exactly the listed transports in list order, and if a listed name
\* is not configured it throws before any transport has received the message.
C18_Claim ==
    logger.call.made /\ AtOrBefore /\ logger.call.options.transports.def =>
        IF AllConfigured(logger.call.options.transports.v)
        THEN ~logger.call.threw
             /\ logger.call.delivered = logger.call.options.transports.v
        ELSE logger.call.threw /\ logger.call.delivered = <<>>

\* A call that lists 'console' and then a name that is not configured, and
\* passes the level check.
C18_Witness ==
    /\ logger.call.made
    /\ AtOrBefore
    /\ logger.call.options.transports.def
    /\ Len(logger.call.options.transports.v) = 2
    /\ logger.call.options.transports.v[1] = Item("name", "console")
    /\ Configured("console")
    /\ logger.call.options.transports.v[2].kind = "name"
    /\ ~Configured(logger.call.options.transports.v[2].id)
    /\ logger.call.threw

-----------------------------------------------------------------------------
(* C19 *)

\* The transports the last call is for: the listed ones, or the defaults.
Target ==
    IF logger.call.options.transports.def THEN logger.call.options.transports.v
    ELSE Named(logger.defaultTransportNames)

\* C19: a call after its effective level in the order ERROR < WARN < INFO <
\* DEBUG < TRACE writes to no transport and returns; a call at or before it
\* goes on to its transports, and reaches every one of them when they are all
\* configured. The effective level is options.level when given, and the
\* configured level otherwise.
C19_LevelGate ==
    logger.call.made =>
        /\ ~AtOrBefore => logger.call.delivered = <<>> /\ ~logger.call.threw
        /\ AtOrBefore /\ AllConfigured(Target) =>
              logger.call.delivered = Target /\ ~logger.call.threw
        /\ AtOrBefore /\ Target # <<>> =>
              logger.call.delivered # <<>> \/ logger.call.threw

\* A WARN call with options.level ERROR on a logger configured for DEBUG is
\* rejected though its own transport is configured.
C19_Witness ==
    /\ logger.call.made
    /\ logger.call.level = "WARN"
    /\ logger.call.options.level = "ERROR"
    /\ logger.config.level = "DEBUG"
    /\ logger.call.options.transports = Some(<<Item("name", "console")>>)
    /\ Configured("console")
    /\ logger.call.delivered = <<>>

-----------------------------------------------------------------------------
(* C20 *)

\* C20, as claimed: under SIZE rotation every numbered sibling in the active
\* directory has an index from 1 to maxFiles - 1, for every maxFiles from 1 on.
C20_Claim ==
    options.method = SIZE =>
        \A p \in Siblings(files) : p.n \in 1..(options.maxFiles - 1)

\* With maxFiles 1 and nothing failing, the first rotation leaves name.1.
C20_Witness ==
    /\ options.method = SIZE /\ options.maxFiles = 1
    /\ ~faulted /\ nRot = 1
    /\ Siblings(files) = {join(LogDir, IndexName(1))}

-----------------------------------------------------------------------------
(* C21 *)

\* The last write ran a DATE rotation.
DateRotated == Wrote /\ options.method = DATE /\ last.rotated = 1

\* Archive name number n of the bucket (number 0 is the name without a number)
\* was taken, plain or compressed, before the last write.
Taken(n) ==
    \/ join(options.archiveDir, DateName(last.preCds, n)) \in DOMAIN last.pre
    \/ Gz(join(options.archiveDir, DateName(last.preCds, n))) \in DOMAIN last.pre

\* The least number from 1 on whose name was free.
LeastFree == CHOOSE n \in 1..(Cardinality(DOMAIN last.pre) + 1) :
                 ~Taken(n) /\ \A m \in 1..(n - 1) : Taken(m)

\* The archive name the claim gives the segment.
ClaimedArchivePath ==
    join(options.archiveDir, DateName(last.preCds, IF ~Taken(0) THEN 0 ELSE LeastFree))

\* C21: a DATE rotation writes over no file of the archive directory (every file
\* that was there stays as it was), and when nothing fails the segment is at
\* name.{lastBucket}.ext if that name was free, plain and compressed, and else at
\* name.{lastBucket}.{n}.ext for the least n >= 1 whose name was free.
C21_FreeArchiveName ==
    DateRotated =>
        /\ \A p \in last.overw : p.dir # options.archiveDir
        /\ \A p \in DOMAIN last.pre :
              p.dir = options.archiveDir /\ p \notin last.dels =>
                  p \in DOMAIN files /\ files[p] = last.pre[p]
        /\ last.failed = {} /\ options.archiveDir \in dirs =>
              /\ ClaimedArchivePath \notin DOMAIN last.pre
              /\ ClaimedArchivePath \in DOMAIN files
              /\ files[ClaimedArchivePath] = last.pre[filePath]
              /\ Cardinality(Archived(files)) = Cardinality(Archived(last.pre)) + 1

\* The name without a number is taken in its compressed form only, number 1 is
\* taken too, and the segment went to number 2.
C21_Witness ==
    /\ DateRotated /\ last.failed = {}
    /\ Gz(join(options.archiveDir, DateName(last.preCds, 0))) \in DOMAIN last.pre
    /\ join(options.archiveDir, DateName(last.preCds, 0)) \notin DOMAIN last.pre
    /\ Taken(1)
    /\ join(options.archiveDir, DateName(last.preCds, 2)) \in DOMAIN files

-----------------------------------------------------------------------------
(* C22 *)

\* The bytes of the active file before the last write, of the entry of the last
\* write, and of the limit the transport was given.
CurrentSizeBytes ==
    LET c == ContentOf(last.pre, filePath)
        RECURSIVE sum(_)
        sum(k) == IF k = 0 THEN 0 ELSE sum(k - 1) + IsoLength + c[k].msg.len + 2
    IN sum(Len(c))
PendingEntryBytes == IsoLength + last.message.len + 2
MaxSizeBytes ==
    CASE given.maxSize.v = Size20B -> 20
      [] given.maxSize.v = Size50B -> 50
      [] given.maxSize.v = Size52B -> 52
      [] OTHER -> -1

\* The reference decision.
ReferenceDecision ==
    /\ filePath \in DOMAIN last.pre
    /\ \/ options.method = SIZE /\ CurrentSizeBytes + PendingEntryBytes > MaxSizeBytes
       \/ options.method = DATE
          /\ formatDate(now, tz, options.dateFormat) # last.preCds

\* C22: whenever write reaches a rotation decision, it is the reference one:
\* false without an active file, under SIZE true exactly when the active file
\* and the entry together are above the limit, under DATE true exactly when the
\* bucket of now is not the recorded one.
C22_ReferenceDecision ==
    Wrote /\ last.admitted /\ last.needed # "threw" =>
        /\ MaxSizeBytes >= 0 \/ options.method = DATE \/ filePath \notin DOMAIN last.pre
        /\ (last.needed = "yes") = ReferenceDecision
        /\ last.rotated = (IF ReferenceDecision THEN 1 ELSE 0)

\* Under SIZE the active file and the entry together are the limit itself, and
\* the write does not rotate.
C22_Witness ==
    /\ Wrote /\ last.admitted /\ options.method = SIZE
    /\ CurrentSizeBytes > 0
    /\ CurrentSizeBytes + PendingEntryBytes = MaxSizeBytes
    /\ last.needed = "no" /\ last.rotated = 0

-----------------------------------------------------------------------------
(* C23 *)

\* The two transports have taken the same writes.
Paired == twin.built /\ nWrites = twin.nWrites /\ nWrites > 0

\* One of the two was given a maxSize that parseSize rejects.
OneUnparsable ==
    \/ given.maxSize = Some(SizeInvalid)
    \/ twin.given.maxSize = Some(SizeInvalid)

\* C23: two transports that differ only in the field their method does not
\* select (maxSize under DATE, dateFormat under SIZE) and take the same writes
\* at the same instants make the same rotation decisions, rotate as often and
\* reach the same files and the same recorded bucket; under DATE no write ends
\* in a failed rotation check, whatever maxSize is; under SIZE a write rotates
\* only when the size limit is exceeded, whatever the clock did.
C23_InactiveTriggerIgnored ==
    /\ Paired =>
          /\ files = twin.files
          /\ nRot = twin.nRot
          /\ currentDateString = twin.currentDateString
          /\ Wrote /\ twin.last.kind = "write" =>
                /\ last.needed = twin.last.needed
                /\ last.rotated = twin.last.rotated
    /\ Wrote /\ options.method = DATE => last.needed # "threw"
    /\ Wrote /\ options.method = SIZE /\ last.rotated = 1 =>
          CurrentSizeBytes + PendingEntryBytes > MaxSizeBytes

\* Two DATE transports, one of them with an unparsable maxSize, have both
\* rotated at their second write, after the bucket changed.
C23_Witness ==
    /\ Paired /\ Wrote /\ twin.last.kind = "write"
    /\ options.method = DATE
    /\ OneUnparsable
    /\ ticks > 0
    /\ last.rotated = 1 /\ twin.last.rotated = 1

-----------------------------------------------------------------------------
(* C24 *)

\* The last write made a SIZE rotation in which no operation failed.
CleanSizeRotation ==
    /\ Wrote /\ last.rotated = 1 /\ last.failed = {}
    /\ options.method = SIZE

\* name.i.ext in the directory of the active file, and in the archive directory.
Segment(i) == join(LogDir, IndexName(i))
ArchivedSegment(i) == join(options.archiveDir, IndexName(i))

\* What C24 says of the active file, of name.1.ext and of the shifted files.
ShiftedDown ==
    /\ ContentOf(files, filePath) = <<TheEntry>>
    /\ Segment(1) \in DOMAIN files
    /\ files[Segment(1)].content = last.pre[filePath].content
    /\ \A i \in 1..(options.maxFiles - 2) :
          Segment(i) \in DOMAIN last.pre =>
              /\ Segment(i + 1) \in DOMAIN files
              /\ files[Segment(i + 1)].content = last.pre[Segment(i)].content

\* The archive directory holds the former name.(maxFiles-1).ext under its name.
EvictedIsArchived ==
    /\ ArchivedSegment(options.maxFiles - 1) \in DOMAIN files
    /\ files[ArchivedSegment(options.maxFiles - 1)].content =
           last.pre[Segment(options.maxFiles - 1)].content

\* The former name.(maxFiles-1).ext was last modified before the retention
\* cutoff of this rotation.
EvictedIsExpired ==
    /\ options.retentionDays # 0
    /\ last.pre[Segment(options.maxFiles - 1)].mtime <
           now - options.retentionDays * HoursPerDay

\* C24 as stated: after a write that made a SIZE rotation with maxFiles >= 2 and
\* no failure, name.1.ext holds what the active file held before, every former
\* name.i.ext with 1 <= i < maxFiles - 1 is name.(i+1).ext, the former
\* name.(maxFiles-1).ext is in the archive directory under its own name, and the
\* active file was created anew: it holds the entry of this write and no other.
C24_Original ==
    CleanSizeRotation /\ options.maxFiles >= 2 =>
        /\ ShiftedDown
        /\ Segment(options.maxFiles - 1) \in DOMAIN last.pre => EvictedIsArchived

\* C24, amended: the same, except that the former name.(maxFiles-1).ext is in
\* the archive directory only if the retention cleanup that ends the rotation
\* does not find it expired; if it does, the file is deleted and the archive
\* directory has no file of that name.
C24_SizeRotationEffect ==
    CleanSizeRotation /\ options.maxFiles >= 2 =>
        /\ ShiftedDown
        /\ Segment(options.maxFiles - 1) \in DOMAIN last.pre =>
              IF EvictedIsExpired
              THEN ArchivedSegment(options.maxFiles - 1) \notin DOMAIN files
              ELSE EvictedIsArchived

\* A rotation with three kept files that found name.1.ext and name.2.ext: one
\* is shifted and the other goes to the archive.
C24_Witness ==
    /\ CleanSizeRotation /\ options.maxFiles = MaxFilesBound
    /\ Segment(1) \in DOMAIN last.pre
    /\ Segment(2) \in DOMAIN last.pre
    /\ ArchivedSegment(2) \in DOMAIN files

-----------------------------------------------------------------------------
(* C25 *)

\* The bucket of now, by the transport's date format.
BucketOfNow == formatDate(now, tz, options.dateFormat)

\* The step is a write that rotated.
RotatingWrite == last'.kind = "write" /\ last'.rotated = 1

\* What a step may do to the recorded bucket and to the active path.
BucketFrame ==
    /\ ~RotatingWrite =>
          /\ currentDateString' = currentDateString
          /\ ctor'.requested = ctor.requested
          /\ ctor'.activeDir = ctor.activeDir
    /\ RotatingWrite /\ options.method = SIZE =>
          currentDateString' = currentDateString
    /\ RotatingWrite /\ options.method = DATE =>
          currentDateString' = formatDate(now', tz', options'.dateFormat)

\* C25: the constructor seeds currentDateString with the bucket of now under
\* DATE; after that the recorded bucket and the active path change only in a
\* write that rotates: a write that does not rotate and the passing of time
\* leave both as they are, a SIZE rotation leaves the bucket as it is, and a DATE
\* rotation leaves the recorded bucket equal to the bucket of now.
C25_BucketChangesInRotation ==
    /\ options.method = DATE => currentDateString = BucketOfNow
    /\ [][BucketFrame]_vars

\* A DATE transport with hourly buckets has rotated an hour or more after its
\* construction and records another bucket than before the write.
C25_Witness ==
    /\ Wrote /\ last.rotated = 1
    /\ options.method = DATE
    /\ options.dateFormat = "YYYY-MM-DD-HH"
    /\ currentDateString # last.preCds
    /\ currentDateString = BucketOfNow

-----------------------------------------------------------------------------
(* C26 *)

\* The files of the active directory that the last write deleted.
DeletedBesideActive == {p \in last.dels : p.dir = LogDir}

\* C26: a transport constructed without maxFiles never deletes a file of the
\* active directory in a DATE rotation: the pass over the date-suffixed files of
\* that directory runs only when maxFiles was given.
C26_Claim ==
    Wrote /\ last.rotated = 1 /\ options.method = DATE /\ ~given.maxFiles.def =>
        DeletedBesideActive = {}

\* A transport constructed without maxFiles has rotated by date and deleted a
\* date-suffixed file of the active directory, which held more than the default
\* of five of them.
C26_Witness ==
    /\ Wrote /\ last.rotated = 1 /\ options.method = DATE
    /\ ~given.maxFiles.def
    /\ options.maxFiles = DefaultMaxFiles
    /\ DeletedBesideActive # {}
    /\ \A p \in DeletedBesideActive : p \in DOMAIN last.pre /\ p \notin DOMAIN files

-----------------------------------------------------------------------------
(* C27 *)

\* The cutoff of the retention cleanup of a rotation made now.
Cutoff == now - options.retentionDays * HoursPerDay

\* The files of the archive directory that are older than the cutoff.
ExpiredIn(fs) == {p \in DOMAIN fs : p.dir = options.archiveDir /\ fs[p].mtime < Cutoff}

\* The last write rotated, and what failed in it were deletions of archive files
\* and nothing else.
OnlyDeletionsFailed ==
    /\ Wrote /\ last.rotated = 1
    /\ last.failed # {}
    /\ \A f \in last.failed : f.op = "unlink" /\ f.p.dir = options.archiveDir

\* C27: when the deletion of an expired archive file fails in the retention
\* cleanup of a rotation, a warning is printed for it and the scan goes on: the
\* expired files left in the archive directory are those whose deletion failed,
\* and the write that rotated has appended its entry to the active file.
C27_ScanGoesOn ==
    OnlyDeletionsFailed =>
        /\ last.warns >= Cardinality(last.failed)
        /\ ExpiredIn(files) = {f.p : f \in last.failed}
        /\ Holds(files, filePath, TheEntry)

\* A rotation found two expired files in the archive directory: the deletion of
\* one failed and the other is gone.
C27_Witness ==
    /\ OnlyDeletionsFailed
    /\ Cardinality(last.failed) = 1
    /\ \E p \in last.dels : p.dir = options.archiveDir /\ p \notin DOMAIN files
    /\ Holds(files, filePath, TheEntry)

-----------------------------------------------------------------------------
(* C28 *)

\* The last operation was a call of archiveFile with compress = true that found
\* its source, the two names it may write in the archive directory being free.
CompressedArchiving ==
    /\ last.kind = "archive"
    /\ options.compress
    /\ last.sourceFile \in DOMAIN last.pre
    /\ join(options.archiveDir, last.archiveFileName) \notin DOMAIN last.pre
    /\ Gz(join(options.archiveDir, last.archiveFileName)) \notin DOMAIN last.pre

\* The three places where the segment can be after the call.
PlacesOf(sourceFile, archiveFileName) ==
    {sourceFile, join(options.archiveDir, archiveFileName),
     Gz(join(options.archiveDir, archiveFileName))}

\* C28: archiveFile with compress = true never loses the data and never leaves
\* two copies: whichever of its steps fail, the segment is afterwards in exactly
\* one of the source path, archivePath and archivePath + '.gz', whole, with no
\* partial or second copy at the other two.
C28_Claim ==
    CompressedArchiving =>
        \E p \in PlacesOf(last.sourceFile, last.archiveFileName) :
            /\ p \in DOMAIN files
            /\ files[p].content = last.pre[last.sourceFile].content
            /\ \A q \in PlacesOf(last.sourceFile, last.archiveFileName) \ {p} :
                  q \notin DOMAIN files

\* The compression succeeded and the removal of the source failed: the fallback
\* moved the source to archivePath, beside the archivePath + '.gz' just written.
C28_Witness ==
    /\ CompressedArchiving
    /\ last.pre[last.sourceFile].content # <<>>
    /\ last.failed = {Fault("unlink", last.sourceFile)}
    /\ last.sourceFile \notin DOMAIN files
    /\ join(options.archiveDir, last.archiveFileName) \in DOMAIN files
    /\ Gz(join(options.archiveDir, last.archiveFileName)) \in DOMAIN files

-----------------------------------------------------------------------------
(* C29 *)

\* The files of the archive directory that the last write put there or replaced.
NewlyArchived ==
    {p \in DOMAIN files : /\ p.dir = options.archiveDir
                          /\ p \notin DOMAIN last.pre \/ files[p] # last.pre[p]}

-----------------------------------------------------------------------------
(* C30 *)

\* The directory can be created and is writable: it is a writable directory, or
\* it is not there and can be made.
Usable(dir) == perm.world.kind[dir] \in {"dir", "creatable"}

\* The fallback directories that can be reached and are usable, as their places
\* in the order temp-dir/app-logs, home/.logs, cwd/logs.
UsableFallbacks ==
    {i \in 1..Len(FALLBACK_DIRS) :
        FALLBACK_DIRS[i] \notin perm.world.throws /\ Usable(FALLBACK_DIRS[i])}

FirstUsableFallback ==
    CHOOSE i \in UsableFallbacks : \A j \in UsableFallbacks : i <= j

\* C30: ensureDirectoryWithFallback(filePath) never throws; it returns success
\* with finalPath = filePath and usedFallback = false when the directory of
\* filePath can be created and is writable; otherwise success with usedFallback
\* = true and finalPath = the first usable of temp-dir/app-logs, home/.logs and
\* cwd/logs joined with the base name of filePath; if none is usable, success =
\* false, usedFallback = false, finalPath = filePath and an error of type
\* FALLBACK_FAILED.
C30_Claim ==
    perm.made =>
        /\ ~perm.result.threw
        /\ perm.result.originalPath = perm.filePath
        /\ IF Usable(perm.filePath[1])
           THEN /\ perm.result.success
                /\ ~perm.result.usedFallback
                /\ perm.result.finalPath = perm.filePath
           ELSE IF UsableFallbacks # {}
           THEN /\ perm.result.success
                /\ perm.result.usedFallback
                /\ perm.result.finalPath =
                       <<FALLBACK_DIRS[FirstUsableFallback], perm.filePath[2]>>
           ELSE /\ ~perm.result.success
                /\ ~perm.result.usedFallback
                /\ perm.result.finalPath = perm.filePath
                /\ perm.result.type = "FALLBACK_FAILED"

\* The directory of the requested path is a regular file the process can write
\* to: the call reports success without a fallback, though a fallback directory
\* could be used.
C30_Witness ==
    /\ perm.made
    /\ perm.world.kind[perm.filePath[1]] = "file"
    /\ UsableFallbacks # {}
    /\ perm.result.success
    /\ ~perm.result.usedFallback
    /\ perm.result.finalPath = perm.filePath

-----------------------------------------------------------------------------
(* C31 *)

\* The bucket of instant t, by the transport's date format.
BucketAt(t) == formatDate(t, tz, options.dateFormat)

\* The last write was admitted under DATE, nothing has failed so far, and the
\* write before it, whose entry ended the active file, fell in the same bucket.
SecondInBucket ==
    /\ Wrote /\ last.admitted /\ ~faulted
    /\ options.method = DATE
    /\ filePath \in DOMAIN last.pre
    /\ last.pre[filePath].content # <<>>
    /\ BucketAt(last.pre[filePath].content[Len(last.pre[filePath].content)].ts) =
           BucketAt(now)

\* C31: under DATE rotation, with one transport and no failure, a write that
\* falls in the same bucket as the admitted write before it does not rotate.
C31_Claim == SecondInBucket => last.rotated = 0

\* The transport was constructed in one bucket and wrote first in a later one,
\* the active file not being there: its second write, in the bucket of the
\* first, rotates.
C31_Witness ==
    /\ SecondInBucket
    /\ nWrites = 2 /\ ticks > 0
    /\ last.rotated = 1
    /\ last.preCds # BucketAt(now)
    /\ Len(last.pre[filePath].content) = 1

-----------------------------------------------------------------------------
(* C32 *)

\* The date-named files of the archive directory.
DateArchives ==
    {p \in DOMAIN files : p.dir = options.archiveDir /\ p.kind = "date"}

\* The entries of the file at p that were written in another bucket than the
\* one its name carries.
Misfiled(p) ==
    {i \in 1..Len(files[p].content) : BucketAt(files[p].content[i].ts) # p.bucket}

\* C32: under DATE rotation, with one transport that found no active file and
\* no failure, an archived file named for bucket b holds only entries written
\* while the clock was in b.
C32_Claim ==
    options.method = DATE /\ ~faulted => \A p \in DateArchives : Misfiled(p) = {}

\* An archived file carries the bucket in which the transport was constructed
\* and holds an entry written in a later bucket.
C32_Witness ==
    /\ options.method = DATE /\ ~faulted
    /\ Wrote /\ last.rotated = 1
    /\ \E p \in DateArchives :
          /\ p.bucket = last.preCds
          /\ p \notin DOMAIN last.pre \/ files[p] # last.pre[p]
          /\ Misfiled(p) # {}

-----------------------------------------------------------------------------
(* C33 *)

\* The places, as <<path, line>>, where the entry of the write numbered id is.
PlacesOfEntry(id) ==
    UNION {{<<p, i>> : i \in {j \in 1..Len(files[p].content) :
                                  files[p].content[j].msg.id = id}} :
           p \in DOMAIN files}

\* C33: under SIZE rotation, nothing having failed and no archive being old
\* enough to expire, every entry written so far is in exactly one place of the
\* active file, the numbered siblings and the archive directory.
C33_Claim ==
    options.method = SIZE /\ ~faulted =>
        \A id \in 1..nWrites : Cardinality(PlacesOfEntry(id)) = 1

\* With two kept files and nothing failing, the second eviction has written
\* over the archived first segment: the first entry is in no file.
C33_Witness ==
    /\ options.method = SIZE /\ ~faulted
    /\ options.maxFiles = 2
    /\ nRot = 3
    /\ PlacesOfEntry(1) = {}
    /\ \A id \in 2..nWrites : Cardinality(PlacesOfEntry(id)) = 1

-----------------------------------------------------------------------------
(* C34 *)

\* C34: when two transports write to one path under DATE rotation and the
\* bucket changes, the file of the old bucket is archived once, under the name
\* of that bucket with no counter, and no archived file holds an entry written
\* in another bucket than the one its name carries.
C34_Claim ==
    options.method = DATE /\ ~faulted /\ (twin.built => ~twin.faulted) =>
        \A p \in DateArchives : p.n = 0 /\ Misfiled(p) = {}

\* After the bucket changed both transports have rotated: the second rotation
\* archived the entry that the first transport wrote in the new bucket, under
\* the name of the old bucket with the counter 1.
C34_Witness ==
    /\ twin.built /\ ~faulted /\ ~twin.faulted
    /\ Wrote /\ last.rotated = 1 /\ twin.last.rotated = 1
    /\ join(options.archiveDir, DateName(last.preCds, 0)) \in DOMAIN last.pre
    /\ join(options.archiveDir, DateName(last.preCds, 1)) \in DOMAIN files
    /\ Misfiled(join(options.archiveDir, DateName(last.preCds, 1))) # {}
    /\ Misfiled(join(options.archiveDir, DateName(last.preCds, 0))) = {}

-----------------------------------------------------------------------------
(* C35 *)

\* The entry of the last write is the last line of the active file.
InFile ==
    /\ filePath \in DOMAIN files
    /\ files[filePath].content # <<>>
    /\ files[filePath].content[Len(files[filePath].content)] = TheEntry

\* The entry of the last write is in no file.
InNoFile == \A p \in DOMAIN files : ~Holds(files, p, TheEntry)

\* C35: an admitted write delivers its message to exactly one sink: its entry
\* ends the active file and console.log printed nothing, or the entry is in no
\* file and console.log printed the message once.
C35_ExactlyOneSink ==
    Wrote /\ last.admitted =>
        \/ InFile /\ last.conLog = <<>>
        \/ InNoFile /\ last.conLog = <<last.message>>

\* A write after the first whose append failed: the message went to console.log
\* and the entry is in no file.
C35_Witness ==
    /\ Wrote /\ last.admitted
    /\ Fault("append", filePath) \in last.failed
    /\ last.conLog = <<last.message>>
    /\ InNoFile
    /\ nWrites >= 2

-----------------------------------------------------------------------------
(* C36 *)

\* The write just done was admitted under SIZE rotation with a limit that
\* parses, and no operation on the files has failed so far.
CleanSizeWrite ==
    /\ Wrote /\ last.admitted
    /\ options.method = SIZE /\ parseSize(options.maxSize).ok
    /\ ~faulted

\* C36: under SIZE rotation with a limit that parses and nothing failing, after
\* every admitted write the active file is no larger than maxSizeBytes or it
\* holds the entry just written and nothing else.
C36_SizeBound ==
    CleanSizeWrite =>
        /\ filePath \in DOMAIN files
        /\ \/ size(files[filePath]) <= parseSize(options.maxSize).v
           \/ files[filePath].content = <<TheEntry>>

\* A write that rotated because its entry alone is larger than the limit: the
\* new active file is over the limit and holds that entry alone.
C36_Witness ==
    /\ CleanSizeWrite /\ last.rotated = 1
    /\ size(files[filePath]) > parseSize(options.maxSize).v
    /\ files[filePath].content = <<TheEntry>>

\* A write that did not rotate and filled the active file to the limit or less
\* with more than one entry.
C36_WitnessFit ==
    /\ CleanSizeWrite /\ last.rotated = 0
    /\ Len(files[filePath].content) >= 2
    /\ size(files[filePath]) <= parseSize(options.maxSize).v

-----------------------------------------------------------------------------
(* C37 *)

\* The indexes of the numbered siblings that are there.
SiblingIndexes == {p.n : p \in Siblings(files)}

\* The write numbers of the entries of the file at p.
WrittenIn(p) == {files[p].content[j].msg.id : j \in 1..Len(files[p].content)}

\* Every entry of the file at p was written after every entry of the one at q.
Younger(p, q) == \A a \in WrittenIn(p), b \in WrittenIn(q) : a > b

\* C37: under SIZE rotation, nothing having failed and no numbered sibling
\* having been there at the start, the siblings are name.1.ext .. name.k.ext
\* with no gap, a sibling of a lower index holds younger entries than one of a
\* higher index, and the active file holds younger entries than every sibling.
C37_SiblingsInOrder ==
    options.method = SIZE /\ ~faulted =>
        /\ SiblingIndexes = 1..Cardinality(SiblingIndexes)
        /\ \A i \in SiblingIndexes, j \in SiblingIndexes :
              i < j => Younger(Segment(i), Segment(j))
        /\ \A i \in SiblingIndexes :
              filePath \in DOMAIN files => Younger(filePath, Segment(i))

\* Three kept files after two shifts: name.1.ext and name.2.ext are there, both
\* with entries, and so is an active file with an entry.
C37_Witness ==
    /\ options.method = SIZE /\ ~faulted
    /\ options.maxFiles = 3 /\ nRot >= 3
    /\ SiblingIndexes = {1, 2}
    /\ WrittenIn(Segment(1)) # {} /\ WrittenIn(Segment(2)) # {}
    /\ filePath \in DOMAIN files /\ WrittenIn(filePath) # {}

-----------------------------------------------------------------------------
(* C38 *)

\* The write just done was admitted and ran no rotation.
NonRotating == Wrote /\ last.admitted /\ last.rotated = 0

\* What the active file held before the write.
ContentBefore ==
    IF filePath \in DOMAIN last.pre THEN last.pre[filePath].content ELSE <<>>

\* The append reached the file: console.log was not used.
Appended == last.conLog = <<>>

\* C38: an admitted write that does not rotate changes the active file alone,
\* and by one line added at its end: what the file held, also from before the
\* transport was built, stays as a prefix, and no other file of the active or of
\* the archive directory is created, renamed, changed or deleted. A write whose
\* append failed leaves the active file as it was.
C38_Frame ==
    NonRotating =>
        /\ DOMAIN files \ {filePath} = DOMAIN last.pre \ {filePath}
        /\ \A p \in DOMAIN files \ {filePath} : files[p] = last.pre[p]
        /\ Appended =>
              /\ filePath \in DOMAIN files
              /\ files[filePath].content = Append(ContentBefore, TheEntry)
        /\ ~Appended =>
              /\ filePath \in DOMAIN files <=> filePath \in DOMAIN last.pre
              /\ filePath \in DOMAIN files => files[filePath] = last.pre[filePath]

\* A write without rotation into the active file of an earlier run, a day after
\* the start: the earlier entry is still the first line, and the sibling and
\* the archive file, older than the retention period, are still there.
C38_Witness ==
    /\ NonRotating /\ Appended
    /\ nWrites = 1 /\ ticks = 1
    /\ last.pre = Inherited
    /\ Len(files[filePath].content) = 2
    /\ files[filePath].content[1].msg.id = 0
    /\ join(LogDir, IndexName(1)) \in DOMAIN files
    /\ join(ArchDir, ForeignName) \in DOMAIN files
    /\ files[join(ArchDir, ForeignName)].mtime < now - options.retentionDays * HoursPerDay

-----------------------------------------------------------------------------
(* C39 *)

\* The name derives from the base name of this transport: `${baseName}.${i}${ext}`
\* or `${baseName}.${dateString}...${ext}`, compressed or not.
OwnArchiveName(p) == p.kind \in {"index", "date"}

-----------------------------------------------------------------------------
(* C40 *)

\* The names of defaultTransports that are no key of transports.
Dangling ==
    {logger.config.defaultTransports[i] : i \in 1..Len(logger.config.defaultTransports)}
        \ {logger.config.transports[i].name : i \in 1..Len(logger.config.transports)}

\* The last call named no transports.
ToDefaults == logger.call.made /\ ~logger.call.options.transports.def

\* C40: every configuration loadConfig returns has each name of
\* defaultTransports as a key of transports, so that a call of a logger built
\* from it that names no transports does not throw, whatever the file, also one
\* with named transports, none of them 'console', and no defaultTransports.
C40_Claim ==
    logger.built =>
        /\ Dangling = {}
        /\ ToDefaults => ~logger.call.threw

\* A file with the one named transport 'errors' and no defaultTransports: the
\* configuration has the default 'console' and no transport of that name, and
\* a call that names no transports has thrown.
C40_Witness ==
    /\ logger.built
    /\ logger.file.exists /\ logger.file.parses /\ ~logger.file.isArray
    /\ logger.file.transports.def /\ ~logger.file.defaultTransports.def
    /\ Keys(logger.config.transports) = <<"errors">>
    /\ logger.warned = {}
    /\ Dangling = {"console"}
    /\ ToDefaults /\ logger.call.passed /\ logger.call.threw

====
